---- MODULE Spec2Model ----
(***************************************************************************)
(* KERN v3 runtime (kern_runtime_v3_full.ts): the step interpreter         *)
(* KernRuntime.execute, the primitive library, the violation recorder and  *)
(* the ledger, over a heap of mutable JavaScript objects.                  *)
(*                                                                         *)
(* JavaScript values are tagged tuples.  Objects live on the heap and are  *)
(* referred to by address, so that two holders of one object see each      *)
(* other's writes; an object is the sequence of its <<key, value>> pairs   *)
(* in insertion order.  Arrays are held by value.                          *)
(***************************************************************************)
EXTENDS Integers, Sequences, FiniteSets, TLC

\* ------------------------------------------------------------------ bounds

MaxPlanLen == 2
MaxRuns == 2

\* ------------------------------------------------------------------ values

Undef == <<"undefined">>
Null == <<"null">>
NaN == <<"NaN">>
\* A number is the fraction p/q in lowest terms, q > 0.
Num(n) == <<"number", n, 1>>
Str(s) == <<"string", s>>
\* A string built from parts by a template literal or by concatenation:
\* Cat(a, b) is `${a}: ${b}` (or a + " " + b), Cat3 the same of three parts.
Cat(a, b) == <<"string", a, b>>
Cat3(a, b, c) == <<"string", a, b, c>>
Bool(b) == <<"boolean", b>>
Arr(s) == <<"array", s>>
Ref(a) == <<"object", a>>
Fn(name) == <<"function", name>>

IsRef(v) == v[1] = "object"
IsStr(v) == v[1] = "string"
IsArr(v) == v[1] = "array"
\* typeof v === 'number' (NaN is a number)
IsNumber(v) == v[1] \in {"number", "NaN"}

\* JavaScript truthiness: undefined, null, NaN, 0, "" and false are falsy.
Truthy(v) == v \notin {Undef, Null, NaN, Num(0), Str(""), Bool(FALSE)}

\* ------------------------------------------------------------------ objects

HasKey(o, k) == \E i \in 1..Len(o) : o[i][1] = k
GetKey(o, k) == IF HasKey(o, k) THEN o[CHOOSE i \in 1..Len(o) : o[i][1] = k][2] ELSE Undef
PutKey(o, k, v) ==
    IF HasKey(o, k)
    THEN [i \in 1..Len(o) |-> IF o[i][1] = k THEN <<k, v>> ELSE o[i]]
    ELSE Append(o, <<k, v>>)
Keys(o) == [i \in 1..Len(o) |-> o[i][1]]

\* v[k] for a value that is not undefined or null: a property of the object
\* on the heap, undefined on a number, a boolean or a string.
GetProp(h, v, k) == IF IsRef(v) THEN GetKey(h[v[2]], k) ELSE Undef

\* { ...a, ...b }
Spread_FirstWins(a, b) ==
    LET F[i \in 0..Len(b)] ==
            IF i = 0 THEN a
            ELSE LET p == F[i - 1]
                 IN IF HasKey(p, b[i][1]) THEN p ELSE Append(p, b[i])
    IN F[Len(b)]
Spread(a, b) ==
    LET F[i \in 0..Len(b)] == IF i = 0 THEN a ELSE PutKey(F[i - 1], b[i][1], b[i][2])
    IN F[Len(b)]

\* ------------------------------------------------------------------ JSON

\* JSON.stringify: the text is modelled by the tree it denotes.  Keys whose
\* value is undefined are dropped, NaN becomes null, an undefined or NaN
\* array element becomes null.  The top-level undefined stays undefined.
RECURSIVE Stringify(_, _)
Stringify(h, v) ==
    IF IsRef(v)
    THEN LET o == h[v[2]]
             kept == SelectSeq(o, LAMBDA kv : kv[2] # Undef)
         IN <<"obj", [i \in 1..Len(kept) |-> <<kept[i][1], Stringify(h, kept[i][2])>>]>>
    ELSE IF IsArr(v)
    THEN Arr([i \in 1..Len(v[2]) |->
                 IF v[2][i] = Undef THEN Null ELSE Stringify(h, v[2][i])])
    ELSE IF v = NaN THEN Null
    ELSE v

\* JSON.parse: builds fresh objects on the heap; returns <<heap, value>>.
RECURSIVE Parse(_, _), ParseFields(_, _, _, _)
Parse(h, j) ==
    IF j[1] = "obj"
    THEN LET a == Len(h) + 1
             r == ParseFields(Append(h, <<>>), j[2], 1, <<>>)
         IN <<[r[1] EXCEPT ![a] = r[2]], Ref(a)>>
    ELSE <<h, j>>
ParseFields(h, fs, i, acc) ==
    IF i > Len(fs) THEN <<h, acc>>
    ELSE LET c == Parse(h, fs[i][2])
         IN ParseFields(c[1], fs, i + 1, Append(acc, <<fs[i][1], c[2]>>))

\* crypto sha256 of the JSON text: collision-free, so the digest is
\* identified with the text it was computed from.
hashState(h, v) == <<"sha256", Stringify(h, v)>>

deepClone_SameObject(h, v) == <<h, v>>
deepClone(h, v) == Parse(h, Stringify(h, v))

\* A new object literal; returns <<heap, reference>>.
NewObj(h, fields) == <<Append(h, fields), Ref(Len(h) + 1)>>

\* ------------------------------------------------------------------ strings

\* pathStr.split("."): the texts the model uses, by table.
Split(s) ==
    CASE s = "a.b" -> <<"a", "b">>
      [] s = "a.b.c" -> <<"a", "b", "c">>
      [] s = "a.normalized_score" -> <<"a", "normalized_score">>
      [] s = "out.newValue" -> <<"out", "newValue">>
      [] OTHER -> <<s>>

\* field.split(".").pop()
LastSegment(s) == Split(s)[Len(Split(s))]

\* expression.startsWith('{{') && expression.endsWith('}}')
IsTemplate(v) == IsStr(v) /\ Len(v) = 2 /\ v[2] \in {"{{now()}}", "{{uuid()}}", "{{a}}", "{{nope}}", "{{0/0}}"}

\* expression.slice(2, -2).trim()
TemplateExpr(s) ==
    CASE s = "{{now()}}" -> "now()"
      [] s = "{{uuid()}}" -> "uuid()"
      [] s = "{{a}}" -> "a"
      [] s = "{{nope}}" -> "nope"
      [] s = "{{0/0}}" -> "0/0"

\* Number(expression) for the numeric-looking strings of the model;
\* every other string is not a number.
NumericValue(s) ==
    CASE s = "5" -> <<TRUE, Num(5)>>
      [] s = "0" -> <<TRUE, Num(0)>>
      [] OTHER -> <<FALSE, NaN>>

\* ------------------------------------------------------------------ expressions

Ok(v) == <<"ok", v>>
Throw(m) == <<"throw", m>>

\* The source text of an expression, parsed: `new Function` on the texts
\* the model uses.  A text that does not parse is a SyntaxError.
ParseExpr(s) ==
    CASE s = "true" -> <<"lit", Bool(TRUE)>>
      [] s = "false" -> <<"lit", Bool(FALSE)>>
      [] s = "undefined" -> <<"lit", Undef>>
      [] s = "1" -> <<"lit", Num(1)>>
      [] s = "0/0" -> <<"div", <<"lit", Num(0)>>, <<"lit", Num(0)>>>>
      [] s = "a" -> <<"var", "a">>
      [] s = "nope" -> <<"var", "nope">>
      [] s = "a.b" -> <<"member", <<"var", "a">>, "b">>
      [] s = "a > 0" -> <<"gt", <<"var", "a">>, <<"lit", Num(0)>>>>
      [] s = "a.b = 0" -> <<"assign", <<"var", "a">>, "b", <<"lit", Num(0)>>>>
      [] s = "now()" -> <<"call", "now">>
      [] s = "uuid()" -> <<"call", "uuid">>
      [] s = "Date.now()" -> <<"call", "Date.now">>
      [] OTHER -> <<"SyntaxError">>

\* `${x}` inside the function text for a value that is not a string.
ExprText(v) == IF IsStr(v) /\ Len(v) = 2 THEN v[2] ELSE IF v = Undef THEN "undefined" ELSE "("

Gcd(a, b) ==
    LET G[x \in 0..a, y \in 0..b] == IF y = 0 THEN x ELSE IF x = 0 THEN y
                                      ELSE IF x >= y THEN G[x - y, y] ELSE G[x, y - x]
    IN G[a, b]

\* p / q on integers p >= 0, q >= 0: 0/0 is NaN.
Quot(p, q) ==
    IF q = 0 THEN NaN
    ELSE LET g == Gcd(p, q) IN <<"number", p \div g, q \div g>>

\* with(scope){ return (e); }: a name resolves in the scope object, then
\* among the globals; env carries the clock and the random source.
RECURSIVE Eval(_, _, _, _)
Eval(h, e, scope, env) ==
    CASE e[1] = "SyntaxError" -> Throw(Str("Unexpected token"))
      [] e[1] = "lit" -> Ok(e[2])
      [] e[1] = "var" ->
            IF HasKey(scope, e[2]) THEN Ok(GetKey(scope, e[2]))
            ELSE Throw(Cat(e[2], "is not defined"))
      [] e[1] = "member" ->
            LET o == Eval(h, e[2], scope, env)
            IN IF o[1] = "throw" THEN o
               ELSE IF o[2] \in {Undef, Null}
               THEN Throw(Cat("Cannot read properties of undefined", e[3]))
               ELSE Ok(GetProp(h, o[2], e[3]))
      [] e[1] = "assign" ->
            LET o == Eval(h, e[2], scope, env)
                r == Eval(h, e[4], scope, env)
            IN IF o[1] = "throw" THEN o
               ELSE IF r[1] = "throw" THEN r
               ELSE IF o[2] \in {Undef, Null}
               THEN Throw(Cat("Cannot set properties of undefined", e[3]))
               ELSE r
      [] e[1] = "gt" ->
            LET l == Eval(h, e[2], scope, env)
                r == Eval(h, e[3], scope, env)
            IN IF l[1] = "throw" THEN l
               ELSE IF r[1] = "throw" THEN r
               ELSE IF l[2][1] = "number" /\ r[2][1] = "number"
               THEN Ok(Bool(l[2][2] * r[2][3] > r[2][2] * l[2][3]))
               ELSE Ok(Bool(FALSE))
      [] e[1] = "div" ->
            LET l == Eval(h, e[2], scope, env)
                r == Eval(h, e[3], scope, env)
            IN IF l[1] = "throw" THEN l
               ELSE IF r[1] = "throw" THEN r
               ELSE IF l[2][1] = "number" /\ r[2][1] = "number"
               THEN Ok(Quot(l[2][2] * r[2][3], l[2][3] * r[2][2]))
               ELSE Ok(NaN)
      [] e[1] = "call" ->
            IF e[2] = "Date.now" THEN Ok(Cat("ms", env.clock))
            ELSE IF ~HasKey(scope, e[2]) THEN Throw(Cat(e[2], "is not defined"))
            ELSE IF GetKey(scope, e[2]) = Fn("now") THEN Ok(Str(env.clock))
            ELSE IF GetKey(scope, e[2]) = Fn("uuid") THEN Ok(Cat("uuid", env.entropy))
            ELSE Throw(Cat(e[2], "is not a function"))

\* The heap after the evaluation of e: the function text is sloppy code
\* (it uses `with`), so an assignment to a property of an object stores the
\* value, and one to a property of a number, string or boolean is ignored.
EvalHeap(h, e, scope, env) ==
    IF e[1] = "assign" /\ Eval(h, e, scope, env)[1] = "ok"
                       /\ IsRef(Eval(h, e[2], scope, env)[2])
    THEN [h EXCEPT ![Eval(h, e[2], scope, env)[2][2]] =
              PutKey(@, e[3], Eval(h, e[4], scope, env)[2])]
    ELSE h

\* new Function("input", `with(input){ return (${text}); }`)(scope)
Evaluate(h, text, scope, env) == Eval(h, ParseExpr(text), scope, env)

\* The heap that call leaves.
Effect(h, text, scope, env) == EvalHeap(h, ParseExpr(text), scope, env)

\* The own properties of the value a `with` or a spread is given.
ScopeOf(h, v) == IF IsRef(v) THEN h[v[2]] ELSE <<>>

\* ------------------------------------------------------------------ primitives
\* A primitive returns [heap, out, threw]: the heap after its writes, the
\* value it returns, and whether it raised instead of returning.

Returned(h, out) == [heap |-> h, out |-> out, threw |-> FALSE]
Raised(h) == [heap |-> h, out |-> Undef, threw |-> TRUE]
ReturnObj(h, fields) == LET n == NewObj(h, fields) IN Returned(n[1], n[2])

\* The traversal of STATE_MUTATOR (and, verbatim, of RULE_APPLICATOR and of
\* KernRuntime.set): a falsy intermediate is replaced by a new {}, the last
\* key is assigned.  The file is a module, hence strict code: creating a
\* property on a number, string or boolean raises a TypeError.
RECURSIVE WalkAssign(_, _, _, _)
WalkAssign(h, obj, keys, value) ==
    IF ~IsRef(obj) THEN [heap |-> h, threw |-> TRUE]
    ELSE IF Len(keys) = 1
    THEN [heap |-> [h EXCEPT ![obj[2]] = PutKey(@, keys[1], value)], threw |-> FALSE]
    ELSE LET cur == GetKey(h[obj[2]], keys[1])
         IN IF Truthy(cur)
            THEN WalkAssign(h, cur, Tail(keys), value)
            ELSE LET n == NewObj(h, <<>>)
                     h2 == [n[1] EXCEPT ![obj[2]] = PutKey(@, keys[1], n[2])]
                 IN WalkAssign(h2, n[2], Tail(keys), value)

CONDITION_EVALUATOR_Raises(h, input, st, env) ==
    LET r == Evaluate(h, ExprText(GetProp(h, input, "condition")),
                      ScopeOf(h, GetProp(h, input, "context")), env)
        g == Effect(h, ExprText(GetProp(h, input, "condition")),
                    ScopeOf(h, GetProp(h, input, "context")), env)
    IN IF r[1] = "ok"
       THEN ReturnObj(g, << <<"result", Bool(Truthy(r[2]))>> >>)
       ELSE Raised(h)
CONDITION_EVALUATOR(h, input, st, env) ==
    LET r == Evaluate(h, ExprText(GetProp(h, input, "condition")),
                      ScopeOf(h, GetProp(h, input, "context")), env)
        g == Effect(h, ExprText(GetProp(h, input, "condition")),
                    ScopeOf(h, GetProp(h, input, "context")), env)
    IN IF r[1] = "ok"
       THEN ReturnObj(g, << <<"result", Bool(Truthy(r[2]))>> >>)
       ELSE ReturnObj(g, << <<"result", Bool(FALSE)>>, <<"error", r[2]>> >>)

\* typeof value === 'number' && Number.isNaN(value)
IsNaNResult_Never(value) == FALSE
IsNaNResult(value) == value = NaN

EXPRESSION_EVALUATOR(h, input, st, env) ==
    LET r == Evaluate(h, ExprText(GetProp(h, input, "expression")),
                      ScopeOf(h, GetProp(h, input, "context")), env)
        g == Effect(h, ExprText(GetProp(h, input, "expression")),
                    ScopeOf(h, GetProp(h, input, "context")), env)
    IN IF r[1] = "throw" THEN ReturnObj(g, << <<"error", r[2]>> >>)
       ELSE IF IsNaNResult(r[2])
       THEN ReturnObj(g, << <<"value", r[2]>>, <<"_violation", Str("NaN_detected")>> >>)
       ELSE ReturnObj(g, << <<"value", r[2]>> >>)

\* !path || typeof path !== "string"
InvalidPath_TypeOnly(path) == ~IsStr(path)
InvalidPath(path) == ~Truthy(path) \/ ~IsStr(path)

\* value === undefined || value === null
MissingValue_UndefinedOnly(value) == value = Undef
MissingValue(value) == value = Undef \/ value = Null

STATE_MUTATOR_Tagged(h, input, st, env) ==
    LET path == GetProp(h, input, "path")
        value == GetProp(h, input, "value")
    IN IF InvalidPath(path)
       THEN ReturnObj(h, << <<"success", Bool(FALSE)>>,
                            <<"message", Str("Invalid or missing path")>>,
                            <<"_violation", Str("invalid_path")>> >>)
       ELSE IF MissingValue(value)
       THEN ReturnObj(h, << <<"success", Bool(FALSE)>>,
                            <<"_violation", Str("empty_output_detected")>> >>)
       ELSE LET w == WalkAssign(h, st, Split(path[2]), value)
            IN IF w.threw THEN Raised(w.heap)
               ELSE ReturnObj(w.heap, << <<"success", Bool(TRUE)>>,
                                         <<"updatedPath", path>>,
                                         <<"newValue", value>> >>)
STATE_MUTATOR(h, input, st, env) ==
    LET path == GetProp(h, input, "path")
        value == GetProp(h, input, "value")
    IN IF InvalidPath(path)
       THEN ReturnObj(h, << <<"success", Bool(FALSE)>>,
                            <<"message", Str("Invalid or missing path")>> >>)
       ELSE IF MissingValue(value)
       THEN ReturnObj(h, << <<"success", Bool(FALSE)>>,
                            <<"_violation", Str("empty_output_detected")>> >>)
       ELSE LET w == WalkAssign(h, st, Split(path[2]), value)
            IN IF w.threw THEN Raised(w.heap)
               ELSE ReturnObj(w.heap, << <<"success", Bool(TRUE)>>,
                                         <<"updatedPath", path>>,
                                         <<"newValue", value>> >>)

\* scores.reduce((a, b) => a + b, 0) over an array of integers
SumScores(s) ==
    LET F[i \in 0..Len(s)] == IF i = 0 THEN 0 ELSE F[i - 1] + s[i][2]
    IN F[Len(s)]

COMPOSITE_SCORER(h, input, st, env) ==
    LET given == GetProp(h, input, "scores")
        scores == IF Truthy(given) THEN given ELSE Arr(<<>>)
    IN IF ~IsArr(scores) THEN Raised(h)
       ELSE IF Len(scores[2]) = 0
       THEN ReturnObj(h, << <<"normalized_score", NaN>>,
                            <<"_violation", Str("empty_scores_array")>> >>)
       ELSE IF Truthy(GetProp(h, input, "trigger_nan_test"))
       THEN ReturnObj(h, << <<"normalized_score", NaN>>,
                            <<"_violation", Str("synthetic_NaN_test")>> >>)
       ELSE ReturnObj(h, << <<"normalized_score",
                               Quot(SumScores(scores[2]), Len(scores[2]))>> >>)

\* evalContext.Math = Math; .Number = Number; .now = ...; .uuid = ...
TemplateHelpers ==
    << <<"Math", Fn("Math")>>, <<"Number", Fn("Number")>>,
       <<"now", Fn("now")>>, <<"uuid", Fn("uuid")>> >>

\* The value an assignment's expression stands for: <<"ok", v>> or <<"throw", m>>.
ResolveAssignment(h, st, expression, env) ==
    IF IsTemplate(expression)
    THEN Evaluate(h, TemplateExpr(expression[2]), Spread(h[st[2]], TemplateHelpers), env)
    ELSE IF expression = Str("true") THEN Ok(Bool(TRUE))
    ELSE IF expression = Str("false") THEN Ok(Bool(FALSE))
    ELSE IF IsStr(expression) /\ Len(expression) = 2 /\ NumericValue(expression[2])[1]
            /\ expression # Str("")
    THEN Ok(NumericValue(expression[2])[2])
    ELSE Ok(expression)

\* The assignment loop of RULE_APPLICATOR from entry i on; updates and
\* results are what the loop has collected so far.
RECURSIVE ApplyAssignments_Continue(_, _, _, _, _, _, _, _)
ApplyAssignments_Continue(h, st, input, entries, i, updates, results, env) ==
    IF i > Len(entries)
    THEN LET F[k \in 0..Len(updates)] ==
                 IF k = 0 THEN <<h, <<>>>>
                 ELSE LET q == F[k - 1]
                          n == NewObj(q[1], << <<"field", Str(updates[k][1])>>,
                                               <<"value", updates[k][2]>> >>)
                      IN <<n[1], Append(q[2], n[2])>>
             u == F[Len(updates)]
             r == NewObj(u[1], results)
         IN ReturnObj(r[1], << <<"success", Bool(TRUE)>>,
                               <<"ruleId", GetProp(h, input, "ruleId")>>,
                               <<"priority", GetProp(h, input, "priority")>>,
                               <<"updatesApplied", Num(Len(updates))>>,
                               <<"updates", Arr(u[2])>>,
                               <<"results", r[2]>> >>)
    ELSE LET fieldPath == entries[i][1]
             expression == entries[i][2]
             v == ResolveAssignment(h, st, expression, env)
             w == IF v[1] = "ok" THEN WalkAssign(h, st, Split(fieldPath), v[2])
                  ELSE [heap |-> h, threw |-> TRUE]
             message == IF v[1] = "ok" THEN Str("Cannot create property") ELSE v[2]
         IN IF w.threw
            THEN ReturnObj(ApplyAssignments_Continue(w.heap, st, input, entries, i + 1,
                                                     updates, results, env).heap,
                     << <<"error", Cat3("Assignment failed for", fieldPath, message)>>,
                        <<"expression", expression>>,
                        <<"fieldPath", Str(fieldPath)>>,
                        <<"ruleId", GetProp(h, input, "ruleId")>> >>)
            ELSE ApplyAssignments_Continue(w.heap, st, input, entries, i + 1,
                                  Append(updates, <<fieldPath, v[2]>>),
                                  PutKey(results, fieldPath, v[2]), env)
RECURSIVE ApplyAssignments(_, _, _, _, _, _, _, _)
ApplyAssignments(h, st, input, entries, i, updates, results, env) ==
    IF i > Len(entries)
    THEN LET F[k \in 0..Len(updates)] ==
                 IF k = 0 THEN <<h, <<>>>>
                 ELSE LET q == F[k - 1]
                          n == NewObj(q[1], << <<"field", Str(updates[k][1])>>,
                                               <<"value", updates[k][2]>> >>)
                      IN <<n[1], Append(q[2], n[2])>>
             u == F[Len(updates)]
             r == NewObj(u[1], results)
         IN ReturnObj(r[1], << <<"success", Bool(TRUE)>>,
                               <<"ruleId", GetProp(h, input, "ruleId")>>,
                               <<"priority", GetProp(h, input, "priority")>>,
                               <<"updatesApplied", Num(Len(updates))>>,
                               <<"updates", Arr(u[2])>>,
                               <<"results", r[2]>> >>)
    ELSE LET fieldPath == entries[i][1]
             expression == entries[i][2]
             v == ResolveAssignment(h, st, expression, env)
             w == IF v[1] = "ok" THEN WalkAssign(h, st, Split(fieldPath), v[2])
                  ELSE [heap |-> h, threw |-> TRUE]
             message == IF v[1] = "ok" THEN Str("Cannot create property") ELSE v[2]
         IN IF w.threw
            THEN ReturnObj(w.heap,
                     << <<"error", Cat3("Assignment failed for", fieldPath, message)>>,
                        <<"expression", expression>>,
                        <<"fieldPath", Str(fieldPath)>>,
                        <<"ruleId", GetProp(h, input, "ruleId")>> >>)
            ELSE ApplyAssignments(w.heap, st, input, entries, i + 1,
                                  Append(updates, <<fieldPath, v[2]>>),
                                  PutKey(results, fieldPath, v[2]), env)

\* if (!enabled)
RuleDisabled_Never(h, input) == FALSE
RuleDisabled(h, input) == ~Truthy(GetProp(h, input, "enabled"))

RULE_APPLICATOR(h, input, st, env) ==
    LET ruleId == GetProp(h, input, "ruleId")
        condition == GetProp(h, input, "condition")
        assignments == GetProp(h, input, "assignments")
        c == IF Truthy(condition) /\ condition # Str("true")
             THEN Evaluate(h, ExprText(condition), h[st[2]], env)
             ELSE Ok(Bool(TRUE))
        g == IF Truthy(condition) /\ condition # Str("true")
             THEN Effect(h, ExprText(condition), h[st[2]], env)
             ELSE h
    IN IF RuleDisabled(h, input)
       THEN ReturnObj(h, << <<"skipped", Bool(TRUE)>>,
                            <<"reason", Str("Rule disabled")>>,
                            <<"ruleId", ruleId>> >>)
       ELSE IF c[1] = "throw"
       THEN ReturnObj(g, << <<"error", Cat("Condition evaluation failed", c[2])>>,
                            <<"condition", condition>>,
                            <<"ruleId", ruleId>> >>)
       ELSE IF ~Truthy(c[2])
       THEN ReturnObj(g, << <<"skipped", Bool(TRUE)>>,
                            <<"reason", Str("Condition not met")>>,
                            <<"condition", condition>>,
                            <<"ruleId", ruleId>> >>)
       ELSE ApplyAssignments(g, st, input, ScopeOf(h, assignments), 1, <<>>, <<>>, env)

\* PrimitiveLibrary: the registered names and the function behind each.
Registered ==
    {"CONDITION_EVALUATOR", "EXPRESSION_EVALUATOR", "STATE_MUTATOR",
     "COMPOSITE_SCORER", "RULE_APPLICATOR"}

PrimitiveLibrary(name, h, input, st, env) ==
    CASE name = "CONDITION_EVALUATOR" -> CONDITION_EVALUATOR(h, input, st, env)
      [] name = "EXPRESSION_EVALUATOR" -> EXPRESSION_EVALUATOR(h, input, st, env)
      [] name = "STATE_MUTATOR" -> STATE_MUTATOR(h, input, st, env)
      [] name = "COMPOSITE_SCORER" -> COMPOSITE_SCORER(h, input, st, env)
      [] name = "RULE_APPLICATOR" -> RULE_APPLICATOR(h, input, st, env)

\* ------------------------------------------------------------------ engine
\* The fields of a KernRuntime, the heap they point into, the caller's
\* objects (the plan, the initial record) and the run in progress.

VARIABLES
    heap,             \* the objects: address -> sequence of <<key, value>>
    plan,             \* this.plan: the steps; params is a heap object
    options,          \* this.options
    invariantBindings,\* this.invariantBindings: primitive -> check names
    initialState,     \* the caller's record, the argument of execute
    state,            \* this.state
    ledger,           \* this.ledger
    auditTrail,       \* this.auditTrail
    tick,             \* this.tick
    metrics,          \* this.metrics
    pc,               \* "idle", "running", "done" or "threw"
    idx,              \* steps of the plan the for-of loop has consumed
    broke,            \* the loop was left by break
    clock,            \* what new Date() reads during this run
    entropy,          \* what the random sources yield during this run
    runs,             \* calls of execute so far
    fresh,            \* the run in progress is the first of its instance
    results,          \* what each completed call of execute returned
    last,             \* the latest step attempt, as observed from outside
    caller            \* the documents the caller handed over, as read

vars == <<heap, plan, options, invariantBindings, initialState, state, ledger,
          auditTrail, tick, metrics, pc, idx, broke, clock, entropy, runs, fresh,
          results, last, caller>>

\* (m[k] || 0) + 1 on a counter table
Bump(table, k) == PutKey(table, k, (IF HasKey(table, k) THEN GetKey(table, k) ELSE 0) + 1)

timestamp(env) == Str(env.clock)
randomUUID(env, n) == Cat3("uuid", env.entropy, n)

\* sampleData: the value itself unless it is an object, else a new object
\* of its first three keys; e carries the heap.
sampleData(h, data) ==
    IF ~Truthy(data) \/ ~IsRef(data) THEN <<h, data>>
    ELSE NewObj(h, SubSeq(h[data[2]], 1, IF Len(h[data[2]]) < 3 THEN Len(h[data[2]]) ELSE 3))

\* message.split(':')[0].trim(): the first part of a built message, the
\* whole of a plain one.
ViolationType_WholeMessage(message) == message
ViolationType(message) == message[2]

\* The engine while a step runs: e = [heap, ledger, auditTrail, metrics, threw].
recordViolation(e, env, t, message, primitive, input, output) ==
    LET si == sampleData(e.heap, input)
        so == sampleData(si[1], output)
        v == NewObj(so[1], << <<"tick", Num(t)>>,
                              <<"primitive", Str(primitive)>>,
                              <<"type", Str("InvariantViolation")>>,
                              <<"message", message>>,
                              <<"inputSample", si[2]>>,
                              <<"outputSample", so[2]>>,
                              <<"timestamp", timestamp(env)>> >>)
    IN [e EXCEPT
          !.heap = v[1],
          !.auditTrail = Append(@, v[2]),
          !.metrics = [@ EXCEPT !.invariantViolations = @ + 1,
                                !.violationsByType = Bump(@, ViolationType(message))],
          !.ledger = Append(@, [id |-> randomUUID(env, Len(e.ledger)),
                                timestamp |-> timestamp(env),
                                operation |-> "VIOLATION_RECORDED",
                                payload |-> v[2],
                                hash |-> hashState(v[1], v[2])])]

runCustomInvariants_Skipped(e, env, t, primitive, output, input) == e
runCustomInvariants(e, env, t, primitive, output, input) ==
    LET h == e.heap
        e1 == IF Truthy(output) /\ GetProp(h, output, "normalized_score") = NaN
              THEN recordViolation(e, env, t, Str("NaN normalized_score detected"),
                                   primitive, input, output)
              ELSE e
        e2 == IF ~Truthy(output) \/ (IsRef(output) /\ Len(h[output[2]]) = 0)
              THEN recordViolation(e1, env, t, Str("Empty output object"),
                                   primitive, input, output)
              ELSE e1
        e3 == IF Truthy(output) /\ Truthy(GetProp(h, output, "error"))
              THEN recordViolation(e2, env, t, Cat("Primitive error", GetProp(h, output, "error")),
                                   primitive, input, output)
              ELSE e2
    IN e3

\* this.resolve(pathStr): reduce over the segments, undefined once the
\* value in hand is falsy.
resolve_TopLevelOnly(h, st, pathStr) == GetProp(h, st, pathStr)
resolve(h, st, pathStr) ==
    LET ks == Split(pathStr)
        F[i \in 0..Len(ks)] ==
            IF i = 0 THEN st
            ELSE LET o == F[i - 1]
                 IN IF Truthy(o) THEN GetProp(h, o, ks[i]) ELSE Undef
    IN F[Len(ks)]

\* this.set(pathStr, value): [heap, threw]
set(h, st, pathStr, value) == WalkAssign(h, st, Split(pathStr), value)

\* this.applyOutputs(fields, output)
applyOutputs_Skipped(e, st, fields, output) == e
applyOutputs(e, st, fields, output) ==
    LET F[i \in 0..Len(fields)] ==
            IF i = 0 THEN e
            ELSE LET p == F[i - 1]
                     v == GetProp(p.heap, output, LastSegment(fields[i]))
                 IN IF p.threw THEN p
                    ELSE IF output \in {Undef, Null} THEN [p EXCEPT !.threw = TRUE]
                    ELSE IF v = Undef THEN p
                    ELSE LET w == set(p.heap, st, fields[i], v)
                         IN [p EXCEPT !.heap = w.heap, !.threw = w.threw]
    IN F[Len(fields)]

appendLedgerEntry_Skipped(e, env, primitive, input, output) == e
appendLedgerEntry_Replacing(e, env, primitive, input, output) ==
    LET p == NewObj(e.heap, << <<"input", input>>, <<"output", output>> >>)
        entry == [id |-> randomUUID(env, Len(e.ledger)),
                  timestamp |-> timestamp(env),
                  operation |-> primitive,
                  payload |-> p[2],
                  hash |-> hashState(p[1], p[2])]
    IN [e EXCEPT
          !.heap = p[1],
          !.ledger = IF @ = <<>> \/ @[Len(@)].operation = "VIOLATION_RECORDED"
                     THEN Append(@, entry)
                     ELSE [@ EXCEPT ![Len(@)] = entry]]
appendLedgerEntry(e, env, primitive, input, output) ==
    LET p == NewObj(e.heap, << <<"input", input>>, <<"output", output>> >>)
    IN [e EXCEPT
          !.heap = p[1],
          !.ledger = Append(@, [id |-> randomUUID(env, Len(e.ledger)),
                                timestamp |-> timestamp(env),
                                operation |-> primitive,
                                payload |-> p[2],
                                hash |-> hashState(p[1], p[2])])]

\* The check names runInvariant tells apart.
KnownChecks == {"stateProgress", "consistencyCheck"}

runInvariant_Strict(h, name, output) ==
    IF name \notin KnownChecks THEN FALSE
    ELSE IF name = "stateProgress" /\ Truthy(output) /\ GetProp(h, output, "success") = Bool(FALSE)
    THEN FALSE
    ELSE IF name = "consistencyCheck"
            /\ (~Truthy(output) \/ GetProp(h, output, "newValue") = Undef)
    THEN FALSE
    ELSE TRUE
runInvariant(h, name, output) ==
    IF name = "stateProgress" /\ Truthy(output) /\ GetProp(h, output, "success") = Bool(FALSE)
    THEN FALSE
    ELSE IF name = "consistencyCheck"
            /\ (~Truthy(output) \/ GetProp(h, output, "newValue") = Undef)
    THEN FALSE
    ELSE TRUE

\* The bound checks of one step, in binding-list order.
runBoundChecks_Reversed(e, env, t, checks, primitive, input, output) ==
    LET F[i \in 0..Len(checks)] ==
            IF i = 0 THEN e
            ELSE LET p == F[i - 1]
                     check == checks[Len(checks) + 1 - i]
                 IN IF runInvariant(p.heap, check, output)
                    THEN [p EXCEPT !.metrics.checksPassed = @ + 1]
                    ELSE recordViolation(
                             [p EXCEPT !.metrics.invariantViolations = @ + 1],
                             env, t, Cat("Schema invariant failed", Str(check)),
                             primitive, input, output)
    IN F[Len(checks)]
runBoundChecks(e, env, t, checks, primitive, input, output) ==
    LET F[i \in 0..Len(checks)] ==
            IF i = 0 THEN e
            ELSE LET p == F[i - 1]
                 IN IF runInvariant(p.heap, checks[i], output)
                    THEN [p EXCEPT !.metrics.checksPassed = @ + 1]
                    ELSE recordViolation(
                             [p EXCEPT !.metrics.invariantViolations = @ + 1],
                             env, t, Cat("Schema invariant failed", Str(checks[i])),
                             primitive, input, output)
    IN F[Len(checks)]

\* const boundChecks = this.invariantBindings[step.primitive] || []
BoundChecks_All(primitive) ==
    LET ps == {"CONDITION_EVALUATOR", "EXPRESSION_EVALUATOR", "STATE_MUTATOR",
               "COMPOSITE_SCORER", "RULE_APPLICATOR"} \cap DOMAIN invariantBindings
        F[n \in 0..Cardinality(ps)] ==
            IF n = 0 THEN [list |-> <<>>, left |-> ps]
            ELSE LET q == F[n - 1]
                     p == CHOOSE x \in q.left : TRUE
                 IN [list |-> q.list \o invariantBindings[p], left |-> q.left \ {p}]
    IN F[Cardinality(ps)].list
BoundChecks(primitive) ==
    IF primitive \in DOMAIN invariantBindings THEN invariantBindings[primitive] ELSE <<>>

\* ------------------------------------------------------------------ inputs
\* The documents a run is given, as the JSON they are read from.

JObj(fields) == <<"obj", fields>>

Times == {"t1", "t2"}
Seeds == {"u1", "u2"}

StepDoc(id, primitive, inputFields, outputFields, params) ==
    [id |-> id, primitive |-> primitive, input_fields |-> inputFields,
     output_fields |-> outputFields, params |-> params]

StepDocs ==
    { StepDoc("write", "STATE_MUTATOR", <<>>, <<>>,
              JObj(<< <<"path", Str("a.b")>>, <<"value", Num(5)>> >>)),
      StepDoc("zero", "STATE_MUTATOR", <<>>, <<>>,
              JObj(<< <<"path", Str("a")>>, <<"value", Num(0)>> >>)),
      StepDoc("relocate", "STATE_MUTATOR", <<>>, <<"out.newValue", "missing">>,
              JObj(<< <<"path", Str("c")>>, <<"value", Num(7)>> >>)),
      StepDoc("nopath", "STATE_MUTATOR", <<>>, <<>>,
              JObj(<< <<"value", Num(5)>> >>)),
      StepDoc("emptypath", "STATE_MUTATOR", <<>>, <<>>,
              JObj(<< <<"path", Str("")>>, <<"value", Num(5)>> >>)),
      StepDoc("numpath", "STATE_MUTATOR", <<>>, <<>>,
              JObj(<< <<"path", Num(7)>>, <<"value", Num(5)>> >>)),
      StepDoc("nullvalue", "STATE_MUTATOR", <<>>, <<>>,
              JObj(<< <<"path", Str("a.b")>>, <<"value", Null>> >>)),
      StepDoc("novalue", "STATE_MUTATOR", <<"a">>, <<>>,
              JObj(<< <<"path", Str("a")>> >>)),
      StepDoc("nothing", "STATE_MUTATOR", <<>>, <<>>,
              JObj(<< <<"value", Null>> >>)),
      StepDoc("graft", "STATE_MUTATOR", <<>>, <<>>,
              JObj(<< <<"path", Str("a")>>,
                      <<"value", JObj(<< <<"b", Num(1)>> >>)>> >>)),
      StepDoc("noscores", "COMPOSITE_SCORER", <<>>, <<>>,
              JObj(<< <<"scores", Arr(<<>>)>> >>)),
      StepDoc("score", "COMPOSITE_SCORER", <<>>, <<"a.normalized_score">>,
              JObj(<< <<"scores", Arr(<<Num(2), Num(4)>>)>> >>)),
      StepDoc("bogus", "BOGUS", <<>>, <<>>, JObj(<<>>)),
      StepDoc("stamp", "RULE_APPLICATOR", <<>>, <<>>,
              JObj(<< <<"ruleId", Str("r1")>>, <<"enabled", Bool(TRUE)>>,
                      <<"assignments", JObj(<< <<"c", Str("{{now()}}")>> >>)>> >>)),
      StepDoc("guard", "RULE_APPLICATOR", <<>>, <<>>,
              JObj(<< <<"ruleId", Str("r4")>>, <<"enabled", Bool(TRUE)>>,
                      <<"condition", Str("a")>>,
                      <<"assignments", JObj(<< <<"c", Str("5")>> >>)>> >>)),
      StepDoc("leak", "RULE_APPLICATOR", <<>>, <<>>,
              JObj(<< <<"ruleId", Str("r5")>>, <<"enabled", Bool(TRUE)>>,
                      <<"condition", Str("a.b = 0")>>,
                      <<"assignments", JObj(<< <<"c", Str("5")>> >>)>> >>)),
      StepDoc("poke", "CONDITION_EVALUATOR", <<"context">>, <<>>,
              JObj(<< <<"condition", Str("a.b = 0")>> >>)),
      StepDoc("partial", "RULE_APPLICATOR", <<>>, <<"fieldPath">>,
              JObj(<< <<"ruleId", Str("r3")>>, <<"enabled", Bool(TRUE)>>,
                      <<"condition", Str("true")>>,
                      <<"assignments", JObj(<< <<"c", Str("5")>>,
                                               <<"a.b", Str("0")>>,
                                               <<"d", Str("{{nope}}")>>,
                                               <<"e", Str("5")>> >>)>> >>)),
      StepDoc("off", "RULE_APPLICATOR", <<>>, <<>>,
              JObj(<< <<"ruleId", Str("r2")>>, <<"enabled", Bool(FALSE)>>,
                      <<"condition", Str("nope")>>,
                      <<"assignments", JObj(<< <<"a", Str("5")>> >>)>> >>)),
      StepDoc("cond", "CONDITION_EVALUATOR", <<"a">>, <<"result">>,
              JObj(<< <<"condition", Str("nope")>> >>)),
      StepDoc("expr", "EXPRESSION_EVALUATOR", <<>>, <<"value">>,
              JObj(<< <<"expression", Str("0/0")>> >>)),
      StepDoc("clash", "EXPRESSION_EVALUATOR", <<"a">>, <<>>,
              JObj(<< <<"a", Num(9)>>, <<"expression", Str("1")>> >>)),
      StepDoc("star", "CONDITION_EVALUATOR", <<"*", "a.b">>, <<"*">>,
              JObj(<< <<"condition", Str("true")>> >>)) }

PlanDocs == UNION { [1..n -> StepDocs] : n \in 0..MaxPlanLen }

RecordDocs ==
    { JObj(<<>>),
      JObj(<< <<"a", Num(5)>> >>),
      JObj(<< <<"a", JObj(<< <<"b", Num(1)>> >>)>> >>),
      JObj(<< <<"context", JObj(<< <<"a", JObj(<< <<"b", Num(1)>> >>)>> >>)>> >>) }

BindingDocs ==
    { << >>,
      [p \in {"STATE_MUTATOR", "EXPRESSION_EVALUATOR"} |->
          IF p = "STATE_MUTATOR"
          THEN <<"stateProgress", "consistencyCheck", "auditTrail">>
          ELSE <<"noNaN", "StateProgress">>] }

\* JSON.parse of the plan document: every step's params becomes an object.
LoadPlan(h, doc) ==
    LET F[i \in 0..Len(doc)] ==
            IF i = 0 THEN <<h, <<>>>>
            ELSE LET q == F[i - 1]
                     p == Parse(q[1], doc[i].params)
                 IN <<p[1], Append(q[2], [doc[i] EXCEPT !.params = p[2]])>>
    IN F[Len(doc)]

ZeroMetrics ==
    [primitiveCounts |-> <<>>, invariantViolations |-> 0, checksPassed |-> 0,
     checksSkipped |-> 0, violationsByType |-> <<>>]

NoStep == [kind |-> "none"]

\* new KernRuntime(plan, manifest, invariantSchema, options), given the
\* parsed input record and plan; level is options.logLevel.
KernRuntime(level) ==
    \E rec \in RecordDocs, doc \in PlanDocs, b \in BindingDocs, halt \in BOOLEAN :
        LET r == Parse(<<>>, rec)
            p == LoadPlan(r[1], doc)
            s == NewObj(p[1], <<>>)
        IN /\ heap = s[1]
           /\ initialState = r[2]
           /\ plan = p[2]
           /\ state = s[2]
           /\ invariantBindings = b
           /\ options = [haltOnError |-> halt, collectAllViolations |-> TRUE,
                         logLevel |-> level]
           /\ ledger = <<>>
           /\ auditTrail = <<>>
           /\ tick = 0
           /\ metrics = ZeroMetrics
           /\ pc = "idle"
           /\ idx = 0
           /\ broke = FALSE
           /\ clock = "t1"
           /\ entropy = "u1"
           /\ runs = 0
           /\ fresh = TRUE
           /\ results = <<>>
           /\ last = NoStep
           /\ caller = [record |-> rec, plan |-> doc]

\* The instance as the command line builds it: logLevel is left to its
\* default.
Init == KernRuntime("normal")

\* ------------------------------------------------------------------ actions

Env == [clock |-> clock, entropy |-> entropy]

\* execute(initialState), up to the loop: lines 306-313.  The run reads
\* the clock t and the random source u.
Begin(t, u) ==
    /\ \E c \in {deepClone(heap, initialState)} :
          /\ heap' = c[1]
          /\ state' = c[2]
    /\ clock' = t
    /\ entropy' = u
    /\ fresh' = (pc = "idle")
    /\ pc' = "running"
    /\ idx' = 0
    /\ broke' = FALSE
    /\ runs' = runs + 1
    /\ last' = NoStep
    /\ UNCHANGED <<plan, options, invariantBindings, initialState, ledger, auditTrail,
                   tick, metrics, results, caller>>

\* The first call of execute on an instance.
Execute ==
    /\ pc = "idle"
    /\ runs < MaxRuns
    /\ IF runs = 0 THEN Begin(clock, entropy)
       ELSE \E t \in Times, u \in Seeds : Begin(t, u)

\* A further call of execute on an instance that has completed a run.
Reexecute ==
    /\ pc = "done"
    /\ runs < MaxRuns
    /\ \E t \in Times, u \in Seeds : Begin(t, u)

\* for (const step of this.plan.transformation_pipeline || this.plan): the
\* step of the next iteration.
CurrentStep_Reversed == plan[Len(plan) - idx]
CurrentStep == plan[idx + 1]

\* this.tick++ at the head of the loop body: the tick of the step attempt.
NextTick_NoIncrement == tick
NextTick_SkipRejected == IF plan[idx + 1].primitive \in Registered THEN tick + 1 ELSE tick
NextTick == tick + 1

\* if (this.options.haltOnError) break; after an unknown primitive
BreakOnUnknown_Always == TRUE
BreakOnUnknown == options.haltOnError

\* this.options.haltOnError && this.metrics.invariantViolations > 0
HaltAfter_SecondViolation(m) == options.haltOnError /\ m.invariantViolations > 1
HaltAfter(m) == options.haltOnError /\ m.invariantViolations > 0

\* Lines 318-319: the violation of a step whose primitive is not registered.
UnknownPrimitive_Counted(step) ==
    LET empty == NewObj(heap, <<>>)
    IN recordViolation(
           [heap |-> empty[1], ledger |-> ledger, auditTrail |-> auditTrail,
            metrics |-> [metrics EXCEPT !.primitiveCounts = Bump(@, step.primitive)],
            threw |-> FALSE],
           Env, NextTick, Cat("Unknown primitive", Str(step.primitive)),
           step.primitive, empty[2], Undef)
UnknownPrimitive(step) ==
    LET empty == NewObj(heap, <<>>)
    IN recordViolation(
           [heap |-> empty[1], ledger |-> ledger, auditTrail |-> auditTrail,
            metrics |-> metrics, threw |-> FALSE],
           Env, NextTick, Cat("Unknown primitive", Str(step.primitive)),
           step.primitive, empty[2], Undef)

\* One iteration of the loop on a step whose primitive is not registered.
StepUnknown ==
    /\ pc = "running" /\ ~broke /\ idx < Len(plan)
    /\ CurrentStep.primitive \notin Registered
    /\ \E e \in {UnknownPrimitive(CurrentStep)} :
          /\ heap' = e.heap
          /\ ledger' = e.ledger
          /\ auditTrail' = e.auditTrail
          /\ metrics' = e.metrics
    /\ last' = [kind |-> "unknown", step |-> idx + 1,
                pre |-> Stringify(heap, state), audits |-> Len(auditTrail)]
    /\ tick' = NextTick
    /\ idx' = idx + 1
    /\ broke' = BreakOnUnknown
    /\ UNCHANGED <<plan, options, invariantBindings, initialState, state, pc, clock,
                   entropy, runs, fresh, results, caller>>

\* const inputs = {}; for (const f of step.input_fields || []) inputs[f] = this.resolve(f)
ResolveInputs(h, st, fields) ==
    LET F[i \in 0..Len(fields)] ==
            IF i = 0 THEN <<>>
            ELSE PutKey(F[i - 1], fields[i], resolve(h, st, fields[i]))
    IN F[Len(fields)]

\* The step's log line, lines 364-371: unless logLevel is verbose it reads
\* output._violation, which raises a TypeError on undefined and on null.
LogStep(e, output) ==
    IF options.logLevel # "verbose" /\ output \in {Undef, Null}
    THEN [e EXCEPT !.threw = TRUE]
    ELSE e

\* The body of the loop for a registered primitive, from the call of the
\* primitive's result r on: lines 332-371.  Returns the engine; threw is
\* set when applyOutputs raised, and nothing after it ran, or when the log
\* line raised.
AfterPrimitive(e0, env, t, step, st, input, output) ==
    LET e1 == IF Truthy(output) /\ Truthy(GetProp(e0.heap, output, "_violation"))
              THEN recordViolation(e0, env, t,
                       Cat("Synthetic violation", GetProp(e0.heap, output, "_violation")),
                       step.primitive, input, output)
              ELSE e0
        e2 == runCustomInvariants(e1, env, t, step.primitive, output, input)
        e3 == applyOutputs(e2, st, step.output_fields, output)
        e4 == [e3 EXCEPT !.metrics.primitiveCounts = Bump(@, step.primitive)]
        e5 == runBoundChecks(e4, env, t, BoundChecks(step.primitive),
                             step.primitive, input, output)
        e6 == appendLedgerEntry(e5, env, step.primitive, input, output)
    IN IF e3.threw THEN e3 ELSE LogStep(e6, output)

\* Lines 324-362 for one step: the combined input, the primitive's call and
\* what follows it.  input and output are the primitive's argument and
\* result, given is the argument's content when the primitive is called,
\* called is the heap as the primitive left it.
StepBody(step, combined, r) ==
    LET e0 == [heap |-> r.heap, ledger |-> ledger, auditTrail |-> auditTrail,
               metrics |-> metrics, threw |-> r.threw]
    IN [e |-> IF r.threw THEN e0
              ELSE AfterPrimitive(e0, Env, NextTick, step, state, combined[2], r.out),
        input |-> combined[2],
        output |-> r.out,
        given |-> Stringify(combined[1], combined[2]),
        called |-> r.heap]

\* const combinedInputs = { ...inputs, ...params }: [heap, object]
CombinedInputs(step) ==
    LET inputs == ResolveInputs(heap, state, step.input_fields)
        params == ScopeOf(heap, step.params)
    IN NewObj(heap, Spread(inputs, params))

Invoke(step) ==
    LET combined == CombinedInputs(step)
    IN StepBody(step, combined,
                PrimitiveLibrary(step.primitive, combined[1], combined[2], state, Env))

\* One iteration of the loop on a step whose primitive is registered.
StepInvoke ==
    /\ pc = "running" /\ ~broke /\ idx < Len(plan)
    /\ CurrentStep.primitive \in Registered
    /\ \E x \in {Invoke(CurrentStep)} :
          /\ heap' = x.e.heap
          /\ ledger' = x.e.ledger
          /\ auditTrail' = x.e.auditTrail
          /\ metrics' = x.e.metrics
          /\ pc' = IF x.e.threw THEN "threw" ELSE "running"
          /\ broke' = (~x.e.threw /\ HaltAfter(x.e.metrics))
          /\ last' = [kind |-> IF x.e.threw THEN "threw" ELSE "invoked",
                      step |-> idx + 1,
                      input |-> x.input,
                      output |-> x.output,
                      given |-> x.given,
                      pre |-> Stringify(heap, state),
                      mid |-> Stringify(x.called, state),
                      audits |-> Len(auditTrail)]
    /\ tick' = NextTick
    /\ idx' = idx + 1
    /\ UNCHANGED <<plan, options, invariantBindings, initialState, state, clock,
                   entropy, runs, fresh, results, caller>>

\* What a call primitiveFn(combinedInputs, this) may hand back to the loop
\* body besides a filled object: nothing, null, or an empty object.
BareReturns(h) == {Returned(h, Undef), Returned(h, Null), ReturnObj(h, <<>>)}

\* One iteration of the loop on a registered primitive, for a call that
\* handed back an absent or empty output.
StepReturned ==
    /\ pc = "running" /\ ~broke /\ idx < Len(plan)
    /\ CurrentStep.primitive \in Registered
    /\ \E c \in {CombinedInputs(CurrentStep)} :
       \E r \in BareReturns(c[1]) :
       \E x \in {StepBody(CurrentStep, c, r)} :
          /\ heap' = x.e.heap
          /\ ledger' = x.e.ledger
          /\ auditTrail' = x.e.auditTrail
          /\ metrics' = x.e.metrics
          /\ pc' = IF x.e.threw THEN "threw" ELSE "running"
          /\ broke' = (~x.e.threw /\ HaltAfter(x.e.metrics))
          /\ last' = [kind |-> IF x.e.threw THEN "threw" ELSE "invoked",
                      step |-> idx + 1,
                      input |-> x.input,
                      output |-> x.output,
                      given |-> x.given,
                      pre |-> Stringify(heap, state),
                      mid |-> Stringify(x.called, state),
                      audits |-> Len(auditTrail)]
    /\ tick' = NextTick
    /\ idx' = idx + 1
    /\ UNCHANGED <<plan, options, invariantBindings, initialState, state, clock,
                   entropy, runs, fresh, results, caller>>

\* generateMetricsSnapshot(durationMs)
generateMetricsSnapshot ==
    [primitives |-> metrics.primitiveCounts,
     invariants |-> [violations |-> metrics.invariantViolations,
                     violationsByType |-> metrics.violationsByType,
                     checksPassed |-> metrics.checksPassed],
     execution |-> [totalTicks |-> tick,
                    haltedEarly |-> options.haltOnError /\ metrics.invariantViolations > 0,
                    options |-> options],
     outcome |-> IF metrics.invariantViolations > 0 THEN "violation_detected" ELSE "success"]

\* this.metrics.invariantViolations > 0 ? "violations_detected" : "clean_execution"
ProofOutcome_SecondViolation(m) ==
    IF m.invariantViolations > 1 THEN "violations_detected" ELSE "clean_execution"
ProofOutcome(m) ==
    IF m.invariantViolations > 0 THEN "violations_detected" ELSE "clean_execution"

\* The loop is over: lines 380-398.  What execute returns is kept in
\* results, with the record's content at that moment and whether the
\* instance was new.
Finish ==
    /\ pc = "running"
    /\ broke \/ idx = Len(plan)
    /\ results' = Append(results,
           [state |-> state,
            ledger |-> ledger,
            auditTrail |-> auditTrail,
            metrics |-> generateMetricsSnapshot,
            proof |-> [ticks |-> tick,
                       finalHash |-> hashState(heap, state),
                       ledgerEntries |-> Len(ledger),
                       violations |-> metrics.invariantViolations,
                       outcome |-> ProofOutcome(metrics)],
            content |-> Stringify(heap, state),
            fresh |-> fresh])
    /\ pc' = "done"
    /\ UNCHANGED <<heap, plan, options, invariantBindings, initialState, state, ledger,
                   auditTrail, tick, metrics, idx, broke, clock, entropy, runs, fresh,
                   last, caller>>

\* A second KernRuntime on the same plan, bindings and options: the field
\* initialisers of lines 278-288.
Construct ==
    /\ pc = "done"
    /\ runs < MaxRuns
    /\ LET s == NewObj(heap, <<>>)
       IN heap' = s[1] /\ state' = s[2]
    /\ ledger' = <<>>
    /\ auditTrail' = <<>>
    /\ tick' = 0
    /\ metrics' = ZeroMetrics
    /\ pc' = "idle"
    /\ UNCHANGED <<plan, options, invariantBindings, initialState, idx, broke, clock,
                   entropy, runs, fresh, results, last, caller>>

\* One instance, one call of execute.
Next == Execute \/ StepUnknown \/ StepInvoke \/ Finish

Spec == Init /\ [][Next]_vars

\* Up to MaxRuns calls of execute, on the same instance or on a new one.
NextRerun == Next \/ Reexecute \/ Construct

SpecRerun == Init /\ [][NextRerun]_vars

\* One call of execute whose primitive calls hand back bare outputs, under
\* every logLevel.
LogLevels == {"verbose", "normal", "quiet"}

InitBare == \E level \in LogLevels : KernRuntime(level)

NextBare == Execute \/ StepUnknown \/ StepReturned \/ Finish

SpecBare == InitBare /\ [][NextBare]_vars

\* ------------------------------------------------------------------ observers

\* The record's content, as JSON.stringify(this.state) would print it.
Content == Stringify(heap, state)

\* The tick numbers the violation records carry, in append order.
ViolationTicks == [i \in 1..Len(auditTrail) |-> GetKey(heap[auditTrail[i][2]], "tick")[2]]

\* The messages of the violation records, in append order.
ViolationMessages == [i \in 1..Len(auditTrail) |-> GetKey(heap[auditTrail[i][2]], "message")]

\* The hashes of the step entries of a ledger, in append order.
StepHashes(l) ==
    LET steps == SelectSeq(l, LAMBDA en : en.operation # "VIOLATION_RECORDED")
    IN [i \in 1..Len(steps) |-> steps[i].hash]

\* The step the latest attempt ran, and what it was given and returned.
LastStep == plan[last.step]
Attempted == last.kind \in {"unknown", "invoked", "threw"}
LastInput(k) == GetProp(heap, last.input, k)
LastOutput == IF IsRef(last.output) THEN heap[last.output[2]] ELSE <<>>

\* ------------------------------------------------------------------ claims

\* C1 (determinism): two runs of execute on new instances, with the same
\* plan, binding table, options and initial record, return the same final
\* record content, the same final record hash, the same violation count and
\* the same hashes of the step entries' {input, output} payloads.
C1_Determinism ==
    (Len(results) = 2 /\ results[1].fresh /\ results[2].fresh) =>
        /\ results[1].content = results[2].content
        /\ results[1].proof.finalHash = results[2].proof.finalHash
        /\ results[1].proof.violations = results[2].proof.violations
        /\ StepHashes(results[1].ledger) = StepHashes(results[2].ledger)

\* C2 (tick monotonicity), as stated: the tick numbers read off the ledger
\* entries and the violation records, in append order, are 1, 2, 3, ...
\* without repetition and without gap.  Only the violation records (and
\* the ledger entries holding them) carry a tick.
C2_TickSequence ==
    \A i \in 1..Len(auditTrail) : ViolationTicks[i] = i

\* C2, amended: the ticks of the violation records, in append order, never
\* decrease, lie between 1 and the number of steps attempted, and those of
\* the latest step attempt are that attempt's tick; the ledger's violation
\* entries hold the same records in the same order.
C2_ViolationTicks ==
    /\ \A i \in 1..Len(auditTrail) : 1 <= ViolationTicks[i] /\ ViolationTicks[i] <= tick
    /\ \A i, j \in 1..Len(auditTrail) : i < j => ViolationTicks[i] <= ViolationTicks[j]
    /\ Attempted => \A i \in (last.audits + 1)..Len(auditTrail) : ViolationTicks[i] = tick
    /\ LET held == SelectSeq(ledger, LAMBDA en : en.operation = "VIOLATION_RECORDED")
       IN [i \in 1..Len(held) |-> held[i].payload] = auditTrail

\* A second step records two violations after a first step that records none.
C2_Witness ==
    /\ Len(auditTrail) = 2
    /\ ViolationTicks = <<2, 2>>
    /\ tick = 2

\* C3 (halt policy, stop point): with haltOnError, a step is attempted only
\* while no violation has been recorded, the steps are attempted in plan
\* order, and the run ends before the end of the plan only after a step
\* that recorded a violation.
C3_HaltStopPoint ==
    options.haltOnError =>
        /\ Attempted => last.audits = 0 /\ last.step = idx /\ tick = idx
        /\ (Attempted /\ pc = "running" /\ Len(auditTrail) > 0) => broke
        /\ (pc = "done" /\ idx < Len(plan)) => Len(auditTrail) > 0
        /\ (pc = "done" /\ Len(auditTrail) = 0) => idx = Len(plan)

\* A run halted by the violation of a registered primitive's step, with a
\* step of the plan left unattempted.
C3_Witness ==
    /\ options.haltOnError
    /\ pc = "done"
    /\ idx = 1 /\ Len(plan) = 2
    /\ last.kind = "invoked"
    /\ Len(auditTrail) > 0

\* The run has returned, having stopped before the end of the plan.
StoppedEarly == options.haltOnError /\ pc = "done" /\ Len(results) = 1 /\ idx < Len(plan)

\* The attempted steps that named a registered primitive.
RegisteredAttempts == Cardinality({i \in 1..idx : plan[i].primitive \in Registered})

\* C4 (halt policy, ledger length), as stated: when the run stops early the
\* returned ledger has as many entries as steps were attempted.
C4_LedgerLength ==
    StoppedEarly =>
        /\ Len(results[1].ledger) = results[1].proof.ticks
        /\ results[1].proof.ledgerEntries = results[1].proof.ticks

\* C4, amended: when the run stops early the returned ledger (and
\* proof.ledgerEntries) has one entry per attempted step that named a
\* registered primitive plus one per violation record, which is at least
\* the number of steps attempted and does not depend on the steps after
\* the halt.
C4_LedgerLengthAmended ==
    StoppedEarly =>
        /\ results[1].proof.ticks = idx
        /\ Len(results[1].ledger) = RegisteredAttempts + Len(results[1].auditTrail)
        /\ results[1].proof.ledgerEntries = Len(results[1].ledger)
        /\ results[1].proof.ledgerEntries >= results[1].proof.ticks

\* A run that stopped early with more ledger entries than ticks.
C4_Witness ==
    /\ StoppedEarly
    /\ results[1].proof.ledgerEntries > results[1].proof.ticks

\* The latest attempt called STATE_MUTATOR.
MutatorCalled == last.kind \in {"invoked", "threw"} /\ LastStep.primitive = "STATE_MUTATOR"

\* C5 (no silent mutation, bad path): a STATE_MUTATOR call whose path is
\* missing, empty or not a string returns {success:false, message} and
\* leaves the record as it was before the call.
C5_BadPathNoMutation ==
    (MutatorCalled /\ (LastInput("path") \in {Undef, Str("")} \/ ~IsStr(LastInput("path")))) =>
        /\ last.kind = "invoked"
        /\ LastOutput = << <<"success", Bool(FALSE)>>,
                           <<"message", Str("Invalid or missing path")>> >>
        /\ last.mid = last.pre

\* A call with an empty path and a value to write, on a record that is not empty.
C5_Witness ==
    /\ MutatorCalled
    /\ LastInput("path") = Str("")
    /\ LastInput("value") = Num(5)
    /\ last.pre # JObj(<<>>)

\* C6 (no silent mutation, null value), as stated: every STATE_MUTATOR call
\* whose value is null or absent leaves the record unchanged and returns an
\* output tagged as a violation, so that the step records a violation,
\* whatever the path is.
C6_NullValue ==
    (MutatorCalled /\ LastInput("value") \in {Undef, Null}) =>
        /\ last.kind = "invoked"
        /\ last.mid = last.pre
        /\ Truthy(GetKey(LastOutput, "_violation"))
        /\ Len(auditTrail) > last.audits

\* C6, amended: every STATE_MUTATOR call with a non-empty string path whose
\* value is null or absent leaves the record unchanged and returns an output
\* tagged as a violation, so that the step records a violation.
C6_NullValueAmended ==
    (MutatorCalled /\ LastInput("value") \in {Undef, Null}
       /\ IsStr(LastInput("path")) /\ LastInput("path") # Str("")) =>
        /\ last.kind = "invoked"
        /\ last.mid = last.pre
        /\ LastOutput = << <<"success", Bool(FALSE)>>,
                           <<"_violation", Str("empty_output_detected")>> >>
        /\ Len(auditTrail) > last.audits
        /\ ViolationMessages[last.audits + 1] =
               Cat("Synthetic violation", Str("empty_output_detected"))

\* A call with a valid path and a null value, on a record the path runs into.
C6_Witness ==
    /\ MutatorCalled
    /\ LastInput("path") = Str("a.b")
    /\ LastInput("value") = Null
    /\ last.pre # JObj(<<>>)

\* The declared output fields of the latest step whose last segment names
\* a key present in the primitive's output.
PresentFields ==
    {i \in 1..Len(LastStep.output_fields) :
        GetProp(heap, last.output, LastSegment(LastStep.output_fields[i])) # Undef}

\* C7 (output field aliasing): once a primitive has returned, for each
\* declared output field whose last segment names a key of the output the
\* record holds that key's value at the declared path; when no declared
\* field names a key of the output the record is as the primitive left it;
\* and a top-level key of the record that no such field starts with keeps
\* its content.
C7_OutputAliasing ==
    (last.kind \in {"invoked", "threw"} /\ IsRef(last.output)) =>
        /\ \A i \in PresentFields :
               resolve(heap, state, LastStep.output_fields[i])
                 = GetProp(heap, last.output, LastSegment(LastStep.output_fields[i]))
        /\ PresentFields = {} => Content = last.mid
        /\ \A k \in {last.mid[2][n][1] : n \in 1..Len(last.mid[2])}
                     \cup {Content[2][n][1] : n \in 1..Len(Content[2])} :
               (\A i \in PresentFields : Split(LastStep.output_fields[i])[1] # k)
                   => GetKey(Content[2], k) = GetKey(last.mid[2], k)

\* C8 (state mutator write): a STATE_MUTATOR step with a non-empty string
\* path and a value that is neither null nor absent returns {success:true,
\* updatedPath, newValue}, leaves the value at that path of the record, and,
\* when no check is bound to the primitive, records no violation.
C8_MutatorWrite ==
    (MutatorCalled /\ IsStr(LastInput("path")) /\ LastInput("path") # Str("")
       /\ LastInput("value") \notin {Undef, Null}) =>
        /\ LastOutput = << <<"success", Bool(TRUE)>>,
                           <<"updatedPath", LastInput("path")>>,
                           <<"newValue", LastInput("value")>> >>
        /\ resolve(heap, state, LastInput("path")[2]) = LastInput("value")
        /\ BoundChecks("STATE_MUTATOR") = <<>> => Len(auditTrail) = last.audits

\* The plan is one COMPOSITE_SCORER step with empty scores and no output fields.
OneEmptyScorerStep ==
    /\ Len(plan) = 1
    /\ plan[1].primitive = "COMPOSITE_SCORER"
    /\ plan[1].output_fields = <<>>
    /\ plan[1].input_fields = <<>>
    /\ GetProp(heap, plan[1].params, "scores") = Arr(<<>>)

\* C9 (composite scorer on empty input), as stated: the run of such a plan
\* ends with the output tagged as a not-a-number synthetic violation, a
\* violation count of 1 and the final record equal to the input record.
C9_ScorerEmpty ==
    (OneEmptyScorerStep /\ pc = "done") =>
        /\ LastOutput = << <<"normalized_score", NaN>>,
                           <<"_violation", Str("empty_scores_array")>> >>
        /\ results[1].proof.violations = 1
        /\ results[1].content = Stringify(heap, initialState)

\* C9, amended: the violation count is 2, one record for the synthetic
\* marker and one for the not-a-number normalized_score.
C9_ScorerEmptyAmended ==
    (OneEmptyScorerStep /\ pc = "done") =>
        /\ LastOutput = << <<"normalized_score", NaN>>,
                           <<"_violation", Str("empty_scores_array")>> >>
        /\ results[1].proof.violations = 2
        /\ ViolationMessages = << Cat("Synthetic violation", Str("empty_scores_array")),
                                  Str("NaN normalized_score detected") >>
        /\ results[1].content = Stringify(heap, initialState)

\* Such a run has returned, on a record that is not empty.
C9_Witness ==
    /\ OneEmptyScorerStep
    /\ pc = "done"
    /\ results[1].content # JObj(<<>>)

\* C10 (unknown primitive): a step naming an unregistered primitive records
\* one violation, with message "Unknown primitive: <name>", and raises
\* nothing; with haltOnError disabled the loop goes on and a run that
\* returns has attempted every step of the plan, with haltOnError enabled
\* the loop is left and the unknown step is the last one attempted.
C10_UnknownPrimitive ==
    /\ last.kind = "unknown" =>
          /\ pc \in {"running", "done"}
          /\ Len(auditTrail) = last.audits + 1
          /\ ViolationMessages[Len(auditTrail)] = Cat("Unknown primitive", Str(LastStep.primitive))
          /\ pc = "running" => broke = options.haltOnError
    /\ \A k \in 1..idx :
          plan[k].primitive \notin Registered =>
              /\ options.haltOnError => k = idx
              /\ (~options.haltOnError /\ pc = "done") => results[1].proof.ticks = Len(plan)

\* With haltOnError disabled, a run whose first step names an unknown
\* primitive has executed its second step and returned.
C10_Witness ==
    /\ ~options.haltOnError
    /\ pc = "done"
    /\ Len(plan) = 2
    /\ plan[1].primitive \notin Registered
    /\ last.kind = "invoked" /\ last.step = 2
    /\ Len(ledger) >= 2

\* The latest attempt called RULE_APPLICATOR.
RuleCalled == last.kind \in {"invoked", "threw"} /\ LastStep.primitive = "RULE_APPLICATOR"

\* C11 (disabled rule): a RULE_APPLICATOR step whose enabled is false
\* returns {skipped:true, reason:'Rule disabled', ruleId}, leaves the record
\* as it was before the step whatever its assignments are, and, when no
\* check is bound to the primitive, records no violation.
C11_DisabledRule ==
    (RuleCalled /\ LastInput("enabled") = Bool(FALSE)) =>
        /\ last.kind = "invoked"
        /\ LastOutput = << <<"skipped", Bool(TRUE)>>,
                           <<"reason", Str("Rule disabled")>>,
                           <<"ruleId", LastInput("ruleId")>> >>
        /\ last.mid = last.pre
        /\ Content = last.pre
        /\ BoundChecks("RULE_APPLICATOR") = <<>> => Len(auditTrail) = last.audits

\* A disabled rule with a condition that would raise and an assignment to
\* make, on a record that is not empty.
C11_Witness ==
    /\ RuleCalled
    /\ LastInput("enabled") = Bool(FALSE)
    /\ LastInput("condition") = Str("nope")
    /\ IsRef(LastInput("assignments"))
    /\ last.pre # JObj(<<>>)

\* C12 (caller isolation): at every point of every run, on a new instance
\* or on one that has run before, the caller's initial record holds what
\* the caller handed over, and the engine's record is another object.
C12_CallerIsolation ==
    /\ Stringify(heap, initialState) = caller.record
    /\ pc # "idle" => state # initialState

\* A run has returned whose record differs from the caller's, which has a
\* nested mapping the run wrote into.
C12_Witness ==
    /\ pc = "done"
    /\ caller.record = JObj(<< <<"a", JObj(<< <<"b", Num(1)>> >>)>> >>)
    /\ resolve(heap, state, "a.b") = Num(5)

\* C13 (ledger hash integrity): at every point after an entry is appended,
\* and in the returned result, the entry's hash is the content hash of the
\* entry's payload as it then stands.
C13_LedgerHashIntegrity ==
    /\ \A i \in 1..Len(ledger) : ledger[i].hash = hashState(heap, ledger[i].payload)
    /\ \A n \in 1..Len(results) : \A i \in 1..Len(results[n].ledger) :
           results[n].ledger[i].hash = hashState(heap, results[n].ledger[i].payload)

\* The steps whose loop body ran to its end: the attempted steps naming a
\* registered primitive, but for one whose call raised.
Executed == {i \in 1..idx : plan[i].primitive \in Registered /\ ~(pc = "threw" /\ i = idx)}

\* The ledger holds one entry per executed step, in plan order and under
\* the step's primitive name, and one VIOLATION_RECORDED entry per violation
\* record, in the order of auditTrail; the entries of a violation recorded
\* at tick t come after the entries of the steps executed before t and
\* before the entry of step t.
LedgerShape ==
    LET isStep(en) == en.operation # "VIOLATION_RECORDED"
        steps == SelectSeq(ledger, isStep)
        held == SelectSeq(ledger, LAMBDA en : ~isStep(en))
        stepsBefore(i) == Cardinality({j \in 1..(i - 1) : isStep(ledger[j])})
    IN /\ Len(ledger) = Cardinality(Executed) + Len(auditTrail)
       /\ Len(steps) = Cardinality(Executed)
       /\ \A n \in 1..Len(steps) :
              \E i \in Executed : /\ Cardinality({j \in Executed : j <= i}) = n
                                  /\ steps[n].operation = plan[i].primitive
       /\ [i \in 1..Len(held) |-> held[i].payload] = auditTrail
       /\ \A i \in 1..Len(ledger) :
              ~isStep(ledger[i]) =>
                  stepsBefore(i) = Cardinality({j \in Executed :
                                        j < GetKey(heap[ledger[i].payload[2]], "tick")[2]})

\* C14 (append-only ledger): during a run every step of the engine leaves
\* the entries the ledger and auditTrail already hold in place, unchanged
\* and in the same order, adding new entries at the end only; and the
\* ledger always has the shape above.
C14_AppendOnly ==
    /\ []LedgerShape
    /\ [][/\ Len(ledger') >= Len(ledger)
          /\ SubSeq(ledger', 1, Len(ledger)) = ledger
          /\ Len(auditTrail') >= Len(auditTrail)
          /\ SubSeq(auditTrail', 1, Len(auditTrail)) = auditTrail]_vars

\* A ledger in which violation entries and step entries alternate.
C14_Witness ==
    /\ Len(ledger) = 4
    /\ ledger[1].operation = "VIOLATION_RECORDED"
    /\ ledger[2].operation # "VIOLATION_RECORDED"
    /\ ledger[3].operation = "VIOLATION_RECORDED"
    /\ ledger[4].operation # "VIOLATION_RECORDED"

\* The latest attempt recorded a violation.
ViolatingStep == Attempted /\ Len(auditTrail) > last.audits

\* C15 (forward-only execution): after a step that recorded a violation,
\* the record is as the step's primitive left it, with the step's declared
\* output fields applied on top: each declared field whose last segment
\* names a key of the output holds that key's value, and every other
\* top-level key holds what it held when the primitive returned.  After
\* the violation of an unknown primitive the record is as it was before
\* the step.
C15_ForwardOnly ==
    ViolatingStep =>
        IF last.kind = "unknown" THEN Content = last.pre
        ELSE /\ last.kind = "invoked"
             /\ \A i \in PresentFields :
                    resolve(heap, state, LastStep.output_fields[i])
                      = GetProp(heap, last.output, LastSegment(LastStep.output_fields[i]))
             /\ PresentFields = {} => Content = last.mid
             /\ \A k \in {last.mid[2][n][1] : n \in 1..Len(last.mid[2])}
                          \cup {Content[2][n][1] : n \in 1..Len(Content[2])} :
                    (\A i \in PresentFields : Split(LastStep.output_fields[i])[1] # k)
                        => GetKey(Content[2], k) = GetKey(last.mid[2], k)

\* A second step recorded a violation after it had written to the record:
\* its own write, its declared output field and the first step's write are
\* all in the record.
C15_Witness ==
    /\ ViolatingStep
    /\ last.kind = "invoked"
    /\ last.step = 2
    /\ plan[1].id = "relocate"
    /\ last.mid # last.pre
    /\ resolve(heap, state, "out.newValue") = Num(7)
    /\ resolve(heap, state, "a.b") = Num(0)
    /\ resolve(heap, state, "fieldPath") = Str("d")

\* C16 (tick counter): in a run on a new instance the tick counter is the
\* number of steps attempted so far; every step of the engine either leaves
\* it alone or attempts one step and raises it by exactly 1, whether the
\* step names an unknown primitive, returns an error or a skip, or records
\* violations; and proof.ticks is the number of steps attempted.
C16_TickCounter ==
    /\ [](tick = idx)
    /\ [](pc = "done" => results[1].proof.ticks = idx)
    /\ [][\/ tick' = tick /\ idx' = idx /\ UNCHANGED last
          \/ tick' = tick + 1 /\ idx' = idx + 1 /\ last'.step = idx']_vars

\* A run has returned after an unknown primitive's step and a step whose
\* output carries an error.
C16_Witness ==
    /\ pc = "done"
    /\ results[1].proof.ticks = 2
    /\ plan[1].primitive \notin Registered
    /\ last.kind = "invoked"
    /\ Truthy(GetKey(LastOutput, "error"))

\* C17 (no exception escapes a step): every call of a registered primitive
\* returns an output, no step raises, and a run that has attempted all it
\* had to attempt can return its result.
C17_NoEscape ==
    /\ pc # "threw"
    /\ last.kind \in {"invoked", "threw"} => (last.kind = "invoked" /\ IsRef(last.output))

\* C18 (termination, only-halt early exit): the steps are attempted in plan
\* order, each at most once, so that a call of execute ends within as many
\* attempts as the plan has steps; when it has ended (no step of it is left
\* to take) it has returned a run result with its proof; and with
\* haltOnError disabled that result's proof.ticks is the length of the plan.
C18_Termination ==
    /\ idx <= Len(plan)
    /\ Attempted => last.step = idx
    /\ pc \notin {"idle", "running"} =>
          /\ pc = "done"
          /\ Len(results) = 1
          /\ ~options.haltOnError =>
                 results[1].proof.ticks = Len(plan) /\ idx = Len(plan)

\* C19 (plan immutability): at every point of a run, every step of the plan
\* has the id, primitive, input_fields, output_fields and params, nested
\* values included, of the plan document the engine was given.
C19_PlanImmutable ==
    /\ Len(plan) = Len(caller.plan)
    /\ \A i \in 1..Len(plan) :
           [plan[i] EXCEPT !.params = Stringify(heap, plan[i].params)] = caller.plan[i]

\* The value a JSON document holds at a dotted path, undefined when the
\* path leaves the document.
RECURSIVE JsonAt(_, _)
JsonAt(j, keys) ==
    IF keys = <<>> THEN j
    ELSE IF j[1] # "obj" THEN Undef
    ELSE JsonAt(GetKey(j[2], keys[1]), Tail(keys))

\* C20 (parameter precedence): the combined input a primitive is called
\* with has the keys of the step's params and the step's input fields that
\* resolve to a value, and no other; under each param name it holds the
\* param's value, also when an input field has that name; under each other
\* input field it holds what the record held at that path before the call.
C20_ParamPrecedence ==
    last.kind \in {"invoked", "threw"} =>
        LET given == last.given[2]
            params == caller.plan[last.step].params[2]
            fields == {LastStep.input_fields[n] : n \in 1..Len(LastStep.input_fields)}
            resolved(f) == JsonAt(last.pre, Split(f))
        IN /\ \A n \in 1..Len(params) : GetKey(given, params[n][1]) = params[n][2]
           /\ \A f \in fields : ~HasKey(params, f) => GetKey(given, f) = resolved(f)
           /\ {given[n][1] : n \in 1..Len(given)}
                 = {params[n][1] : n \in 1..Len(params)}
                     \cup {f \in fields : resolved(f) # Undef}

\* A primitive was called by a step whose input field a is also a param,
\* on a record that holds another value under a.
C20_Witness ==
    /\ last.kind = "invoked"
    /\ LastStep.input_fields = <<"a">>
    /\ HasKey(caller.plan[last.step].params[2], "a")
    /\ JsonAt(last.pre, <<"a">>) = Num(5)
    /\ GetKey(last.given[2], "a") = Num(9)

\* C21 (wildcard field): a primitive called by a step that declares the
\* input field "*" finds the whole current record under that field.
C21_Wildcard ==
    (last.kind \in {"invoked", "threw"}
       /\ \E n \in 1..Len(LastStep.input_fields) : LastStep.input_fields[n] = "*") =>
        GetKey(last.given[2], "*") = last.pre

\* C22 (outcome label): in the result of a run on a new instance, the
\* proof's outcome is clean_execution and the metrics snapshot's outcome is
\* success when the run recorded no violation, and they are
\* violations_detected and violation_detected when it recorded one or more.
C22_OutcomeLabel ==
    pc = "done" =>
        IF results[1].auditTrail = <<>>
        THEN /\ results[1].proof.outcome = "clean_execution"
             /\ results[1].metrics.outcome = "success"
        ELSE /\ results[1].proof.outcome = "violations_detected"
             /\ results[1].metrics.outcome = "violation_detected"

\* A run of two steps has returned with exactly one violation record.
C22_Witness ==
    /\ pc = "done"
    /\ Len(results[1].auditTrail) = 1
    /\ results[1].proof.violations = 1
    /\ results[1].proof.ticks = 2

\* C23 (unknown-primitive frame): a step attempt on an unregistered
\* primitive leaves the record, the per-primitive invocation counts and the
\* checks-passed counter as they were and adds one entry to the ledger, the
\* VIOLATION_RECORDED entry of its violation; and a one-step plan naming an
\* unknown primitive returns ticks 1, ledgerEntries 1, violations 1 and
\* empty primitive counts.
C23_UnknownFrame ==
    /\ [][(idx' = idx + 1 /\ plan[idx'].primitive \notin Registered) =>
            /\ state' = state
            /\ Stringify(heap', state') = Stringify(heap, state)
            /\ metrics'.primitiveCounts = metrics.primitiveCounts
            /\ metrics'.checksPassed = metrics.checksPassed
            /\ Len(ledger') = Len(ledger) + 1
            /\ ledger'[Len(ledger')].operation = "VIOLATION_RECORDED"
            /\ ledger'[Len(ledger')].payload = auditTrail'[Len(auditTrail')]
            /\ Len(auditTrail') = Len(auditTrail) + 1]_vars
    /\ []((pc = "done" /\ Len(plan) = 1 /\ plan[1].primitive \notin Registered) =>
            /\ results[1].proof.ticks = 1
            /\ results[1].proof.ledgerEntries = 1
            /\ results[1].proof.violations = 1
            /\ results[1].metrics.primitives = <<>>
            /\ results[1].metrics.invariants.violationsByType = << <<"Unknown primitive", 1>> >>)

\* An unknown primitive's step was attempted after a step that had written
\* to the record and been counted.
C23_Witness ==
    /\ last.kind = "unknown"
    /\ last.step = 2
    /\ last.pre # caller.record
    /\ metrics.primitiveCounts # <<>>
    /\ Len(ledger) = 2

\* The step entries of the ledger, in append order.
StepEntries == SelectSeq(ledger, LAMBDA en : en.operation # "VIOLATION_RECORDED")

\* The attempts are made in plan order, one per tick, each step at most
\* once; every violation record carries the tick and the primitive of the
\* step that was being attempted; and the entry of a step is in the ledger,
\* after the step's violations, before the next step is attempted.
AttemptsInOrder ==
    /\ Attempted => last.step = idx /\ tick = idx
    /\ \A i \in 1..Len(auditTrail) :
           GetKey(heap[auditTrail[i][2]], "primitive") = Str(plan[ViolationTicks[i]].primitive)
    /\ last.kind = "invoked" =>
           /\ ledger # <<>>
           /\ ledger[Len(ledger)].operation = LastStep.primitive
           /\ heap[ledger[Len(ledger)].payload[2]]
                 = << <<"input", last.input>>, <<"output", last.output>> >>

\* C24 (sequential plan order), as stated: the attempts are in order and
\* the i-th step entry of the ledger belongs to the i-th attempted step.
C24_SequentialOrder ==
    /\ AttemptsInOrder
    /\ \A n \in 1..Len(StepEntries) : StepEntries[n].operation = plan[n].primitive

\* C24, amended: the attempts are in order and the i-th step entry of the
\* ledger belongs to the i-th attempted step that named a registered
\* primitive; an attempt on an unknown primitive has no step entry.
C24_SequentialOrderAmended ==
    /\ AttemptsInOrder
    /\ Len(StepEntries) = Cardinality(Executed)
    /\ \A i \in Executed :
           StepEntries[Cardinality({j \in Executed : j <= i})].operation = plan[i].primitive

\* The first step entry of the ledger belongs to the second attempted step.
C24_Witness ==
    /\ last.kind = "invoked"
    /\ last.step = 2
    /\ plan[1].primitive \notin Registered
    /\ Len(StepEntries) = 1
    /\ StepEntries[1].operation # plan[1].primitive

\* The place of a violation in the order of a step's checks: the synthetic
\* marker, the three structural checks, then the bound checks of the
\* primitive in binding-list order.
CheckRank(message, primitive) ==
    CASE message[2] = "Synthetic violation" -> 1
      [] message[2] = "NaN normalized_score detected" -> 2
      [] message[2] = "Empty output object" -> 3
      [] message[2] = "Primitive error" -> 4
      [] message[2] = "Schema invariant failed" ->
            4 + (CHOOSE n \in 1..Len(BoundChecks(primitive)) :
                     BoundChecks(primitive)[n] = message[3][2])
      [] OTHER -> 0

\* C25 (within-step ordering): the violations a step with a registered
\* primitive records come in the order synthetic marker, NaN, empty output,
\* error field, then bound checks in binding-list order, each check at most
\* once; their ledger entries, in the same order, come right before the
\* step's own entry, which is the last entry of the ledger when the step is
\* over; and when applying the outputs raises, no bound check has run and
\* no step entry is appended.
C25_WithinStepOrder ==
    last.kind \in {"invoked", "threw"} =>
        LET new == Len(auditTrail) - last.audits
            rank(i) == CheckRank(ViolationMessages[i], LastStep.primitive)
            own == IF last.kind = "invoked" THEN 1 ELSE 0
        IN /\ \A i \in (last.audits + 1)..Len(auditTrail) : rank(i) >= 1
           /\ \A i, j \in (last.audits + 1)..Len(auditTrail) : i < j => rank(i) < rank(j)
           /\ Len(ledger) >= new + own
           /\ \A k \in 1..new :
                  LET en == ledger[Len(ledger) - own - new + k]
                  IN /\ en.operation = "VIOLATION_RECORDED"
                     /\ en.payload = auditTrail[last.audits + k]
           /\ last.kind = "invoked" =>
                  ledger[Len(ledger)].operation = LastStep.primitive
           /\ last.kind = "threw" =>
                  \A i \in (last.audits + 1)..Len(auditTrail) : rank(i) <= 4

\* A step recorded its synthetic marker and then two bound checks, in the
\* order of the binding list.
C25_Witness ==
    /\ last.kind = "invoked"
    /\ Len(auditTrail) = last.audits + 3
    /\ ViolationMessages[last.audits + 1]
          = Cat("Synthetic violation", Str("empty_output_detected"))
    /\ ViolationMessages[last.audits + 2]
          = Cat("Schema invariant failed", Str("stateProgress"))
    /\ ViolationMessages[last.audits + 3]
          = Cat("Schema invariant failed", Str("consistencyCheck"))

\* The input fields of the latest step that no param of the step hides.
OwnInputFields ==
    {f \in {LastStep.input_fields[n] : n \in 1..Len(LastStep.input_fields)} :
        ~HasKey(caller.plan[last.step].params[2], f)}

\* C26 (input resolution against current state): each declared input field
\* of a step holds, in the primitive's input, what the record held at that
\* path when the step began, earlier steps' writes included, and nothing
\* when the path is missing at some segment; resolving raises nothing, and
\* a step whose primitive returns a plain {result:true} although an input
\* path was missing records no violation and leaves the record unchanged.
C26_InputResolution ==
    last.kind \in {"invoked", "threw"} =>
        /\ \A f \in OwnInputFields :
               GetKey(last.given[2], f) = JsonAt(last.pre, Split(f))
        /\ ((\E f \in OwnInputFields : JsonAt(last.pre, Split(f)) = Undef)
               /\ LastOutput = << <<"result", Bool(TRUE)>> >>) =>
                  /\ last.kind = "invoked"
                  /\ Len(auditTrail) = last.audits
                  /\ Content = last.pre

\* A second step read a.b as the first step wrote it, on a record that had
\* no key a at the start, and found nothing at another path.
C26_Witness ==
    /\ last.kind = "invoked"
    /\ last.step = 2
    /\ caller.record = JObj(<<>>)
    /\ "a.b" \in OwnInputFields
    /\ GetKey(last.given[2], "a.b") = Num(5)
    /\ \E f \in OwnInputFields : JsonAt(last.pre, Split(f)) = Undef

\* C27 (evaluation failure becomes a violation): a CONDITION_EVALUATOR call
\* always returns an output with a result; when its condition names a
\* variable that is not defined the output is {result:false, error:message};
\* and after every step whose output carries an error the step has recorded,
\* at its tick, a violation 'Primitive error: <error>', and the loop goes
\* on unless haltOnError is set.
C27_EvaluationFailure ==
    /\ (last.kind \in {"invoked", "threw"} /\ LastStep.primitive = "CONDITION_EVALUATOR") =>
          /\ IsRef(last.output)
          /\ HasKey(LastOutput, "result")
          /\ (LastInput("condition") = Str("nope") /\ LastInput("context") = Undef) =>
                 LastOutput = << <<"result", Bool(FALSE)>>,
                                 <<"error", Cat("nope", "is not defined")>> >>
    /\ (last.kind = "invoked" /\ Truthy(GetKey(LastOutput, "error"))) =>
          /\ \E i \in (last.audits + 1)..Len(auditTrail) :
                 /\ ViolationMessages[i] = Cat("Primitive error", GetKey(LastOutput, "error"))
                 /\ ViolationTicks[i] = tick
          /\ pc = "running" => broke = options.haltOnError

\* With haltOnError disabled, a condition that failed to evaluate in the
\* first step was followed by a second step.
C27_Witness ==
    /\ ~options.haltOnError
    /\ last.kind = "invoked"
    /\ last.step = 2
    /\ plan[1].primitive = "CONDITION_EVALUATOR"
    /\ GetProp(heap, plan[1].params, "condition") = Str("nope")
    /\ ViolationMessages[1] = Cat("Primitive error", Cat("nope", "is not defined"))

\* C28 (expression NaN tagging): after an EXPRESSION_EVALUATOR step, an
\* output whose value is NaN is exactly {value: NaN, _violation:
\* "NaN_detected"} and the step has recorded 'Synthetic violation:
\* NaN_detected'; an output with any other value is exactly {value} and the
\* step has recorded no violation.  The expression 0/0 gives NaN, the
\* expression 1 gives 1.
C28_NaNTagging ==
    (last.kind = "invoked" /\ LastStep.primitive = "EXPRESSION_EVALUATOR") =>
       /\ LastInput("expression") = Str("0/0") => GetKey(LastOutput, "value") = NaN
       /\ LastInput("expression") = Str("1") => GetKey(LastOutput, "value") = Num(1)
       /\ GetKey(LastOutput, "value") = NaN =>
             /\ LastOutput = << <<"value", NaN>>, <<"_violation", Str("NaN_detected")>> >>
             /\ \E i \in (last.audits + 1)..Len(auditTrail) :
                    /\ ViolationMessages[i] = Cat("Synthetic violation", Str("NaN_detected"))
                    /\ ViolationTicks[i] = tick
       /\ (HasKey(LastOutput, "value") /\ GetKey(LastOutput, "value") # NaN) =>
             /\ LastOutput = << <<"value", GetKey(LastOutput, "value")>> >>
             /\ Len(auditTrail) = last.audits

\* Both cases in one run: the first step evaluated 1 without a violation,
\* the second evaluated 0/0 and recorded the synthetic violation.
C28_Witness ==
    /\ last.kind = "invoked"
    /\ last.step = 2
    /\ LastStep.primitive = "EXPRESSION_EVALUATOR"
    /\ plan[1].primitive = "EXPRESSION_EVALUATOR"
    /\ GetKey(LastOutput, "value") = NaN
    /\ Len(auditTrail) = 1
    /\ ViolationMessages[1] = Cat("Synthetic violation", Str("NaN_detected"))

\* The output of the last step is absent (undefined or null) or an object
\* without keys.
BareOutput ==
    \/ last.output \in {Undef, Null}
    \/ IsRef(last.output) /\ LastOutput = <<>>

NewViolations(before) == (before + 1)..Len(auditTrail)

\* C30 (bound checks default to passing): in every step that called its
\* primitive and completed, each bound check either added one to
\* checksPassed or recorded one 'Schema invariant failed' violation, no such
\* violation names a check other than stateProgress and consistencyCheck,
\* and checksPassed grew by at least the number of those other checks.
C30_DefaultPass ==
    [][(idx' = idx + 1 /\ last'.kind = "invoked") =>
         LET checks == BoundChecks(CurrentStep.primitive)
             others == {i \in 1..Len(checks) : checks[i] \notin KnownChecks}
             failed == {i \in (Len(auditTrail) + 1)..Len(auditTrail') :
                           ViolationMessages'[i][2] = "Schema invariant failed"}
         IN /\ (metrics'.checksPassed - metrics.checksPassed) + Cardinality(failed)
                  = Len(checks)
            /\ \A i \in others : \A j \in failed :
                  ViolationMessages'[j] # Cat("Schema invariant failed", Str(checks[i]))
            /\ metrics'.checksPassed - metrics.checksPassed >= Cardinality(others)]_vars

\* The first step evaluated 0/0 under two bound checks the engine does not
\* know: its output carries a marker, the only violation is the synthetic
\* one, and both checks were counted as passed.
C30_Witness ==
    /\ last.kind = "invoked"
    /\ last.step = 1
    /\ BoundChecks(LastStep.primitive) = <<"noNaN", "StateProgress">>
    /\ GetKey(LastOutput, "value") = NaN
    /\ metrics.checksPassed = 2
    /\ Len(auditTrail) = 1

\* The checks the binding table lists under a primitive's name.
BoundTo(primitive) ==
    IF primitive \in DOMAIN invariantBindings THEN invariantBindings[primitive] ELSE <<>>

\* The steps attempted so far that called a registered primitive and ran
\* to the end of the loop body.
CompletedSteps ==
    {j \in 1..idx : /\ plan[j].primitive \in Registered
                    /\ ~(pc = "threw" /\ j = idx)}

\* The number of bound checks the completed steps evaluated.
ChecksEvaluated ==
    LET F[j \in 0..idx] ==
            IF j = 0 THEN 0
            ELSE F[j - 1] + (IF j \in CompletedSteps
                             THEN Len(BoundTo(plan[j].primitive)) ELSE 0)
    IN F[idx]

\* The violation records of failed bound checks.
SchemaRecords ==
    {i \in 1..Len(auditTrail) : ViolationMessages[i][2] = "Schema invariant failed"}

\* C31 (bound-check accounting): in every completed step, each check bound
\* to the invoked primitive either passed, adding one to checksPassed, or
\* failed, recording exactly one violation record that names it and raising
\* the violation counter; no record names a check that is not bound to the
\* step's primitive; and at every point checksPassed plus the number of
\* bound-check violation records equals the number of bound checks evaluated.
C31_Accounting ==
    /\ [][(idx' = idx + 1 /\ last'.kind = "invoked") =>
            LET checks == BoundTo(CurrentStep.primitive)
                new == (Len(auditTrail) + 1)..Len(auditTrail')
                naming(i) == {j \in new : ViolationMessages'[j]
                                 = Cat("Schema invariant failed", Str(checks[i]))}
                failed == {i \in 1..Len(checks) : naming(i) # {}}
                passed == {i \in 1..Len(checks) : naming(i) = {}}
            IN /\ metrics'.checksPassed = metrics.checksPassed + Cardinality(passed)
               /\ \A i \in failed : Cardinality(naming(i)) = 1
               /\ metrics'.invariantViolations
                     >= metrics.invariantViolations + Cardinality(failed)
               /\ \A j \in new :
                     ViolationMessages'[j][2] = "Schema invariant failed" =>
                        \E i \in failed : j \in naming(i)]_vars
    /\ [](pc # "idle" => metrics.checksPassed + Cardinality(SchemaRecords) = ChecksEvaluated)

\* The first step, a STATE_MUTATOR call without a path, failed two of its
\* three bound checks and passed the third; the second step called a
\* primitive with no bound checks.
C31_Witness ==
    /\ last.kind = "invoked"
    /\ last.step = 2
    /\ plan[1].primitive = "STATE_MUTATOR"
    /\ Len(BoundTo("STATE_MUTATOR")) = 3
    /\ BoundTo(LastStep.primitive) = <<>>
    /\ metrics.checksPassed = 1
    /\ Cardinality(SchemaRecords) = 2

\* The assignments of the last step's rule, as the plan document lists
\* them: <<fieldPath, expression>>.
RuleEntries == GetKey(caller.plan[last.step].params[2], "assignments")[2]

\* The last step called RULE_APPLICATOR and the rule reached its assignments.
RuleApplied ==
    /\ last.kind = "invoked"
    /\ LastStep.primitive = "RULE_APPLICATOR"
    /\ ~HasKey(LastOutput, "skipped")
    /\ ~HasKey(LastOutput, "condition")

\* Assignment i of the last step's rule cannot be carried out on the record
\* the step found: its template names an undefined variable, or its path
\* runs through the number stored under a.
AssignmentFails(i) ==
    \/ RuleEntries[i][2] = Str("{{nope}}")
    \/ RuleEntries[i][1] = "a.b" /\ JsonAt(last.pre, <<"a">>) = Num(5)

\* C32 (rule applicator partial failure): when an assignment of a
\* RULE_APPLICATOR step fails, the output is an error result whose
\* fieldPath and error name the first failing assignment k; right after the
\* call the record holds the values of assignments 1..k-1, and holds at the
\* paths of assignment k and of the later ones what it held before.
C32_PartialFailure ==
    RuleApplied =>
       LET failing == {i \in 1..Len(RuleEntries) : AssignmentFails(i)}
       IN /\ failing = {} <=> ~HasKey(LastOutput, "error")
          /\ failing # {} =>
                LET k == CHOOSE i \in failing : \A j \in failing : i <= j
                IN /\ GetKey(LastOutput, "fieldPath") = Str(RuleEntries[k][1])
                   /\ GetKey(LastOutput, "error")[2] = "Assignment failed for"
                   /\ GetKey(LastOutput, "error")[3] = RuleEntries[k][1]
                   /\ ~HasKey(LastOutput, "success")
                   /\ \A i \in 1..(k - 1) :
                         JsonAt(last.mid, Split(RuleEntries[i][1]))
                            = NumericValue(RuleEntries[i][2][2])[2]
                   /\ \A i \in k..Len(RuleEntries) :
                         JsonAt(last.mid, Split(RuleEntries[i][1]))
                            = JsonAt(last.pre, Split(RuleEntries[i][1]))

\* The third of four assignments failed on its template: the first two are
\* in the record, the fourth is not.
C32_Witness ==
    /\ RuleApplied
    /\ Len(RuleEntries) = 4
    /\ GetKey(LastOutput, "fieldPath") = Str("d")
    /\ JsonAt(last.mid, <<"c">>) = Num(5)
    /\ JsonAt(last.mid, <<"a", "b">>) = Num(0)
    /\ JsonAt(last.mid, <<"e">>) = Undef

\* The last step called RULE_APPLICATOR on an enabled rule whose condition
\* is neither absent nor the literal "true".
GuardedRule ==
    /\ last.kind = "invoked"
    /\ LastStep.primitive = "RULE_APPLICATOR"
    /\ Truthy(LastInput("enabled"))
    /\ Truthy(LastInput("condition"))
    /\ LastInput("condition") # Str("true")

\* What the condition of the last step's rule comes to on the record the
\* step found: "a" is the record's value under a, an error when the record
\* has no such key; "a.b = 0" is 0 when a holds a value, an error otherwise.
ConditionFails ==
    /\ LastInput("condition") \in {Str("a"), Str("a.b = 0")}
    /\ JsonAt(last.pre, <<"a">>) = Undef
ConditionFalsy ==
    /\ LastInput("condition") = Str("a.b = 0")
    /\ JsonAt(last.pre, <<"a">>) # Undef

\* C33 (rule applicator guard): for an enabled rule with a non-trivial
\* condition, a condition that fails to evaluate gives an error result, a
\* falsy one gives a skip result, and in both cases the record is, right
\* after the call, what it was before it; the rule's assignments are
\* applied only when the condition is absent, "true", or truthy.
C33_RuleGuard ==
    /\ GuardedRule =>
         /\ ConditionFails =>
               /\ GetKey(LastOutput, "error")[2] = "Condition evaluation failed"
               /\ GetKey(LastOutput, "condition") = LastInput("condition")
               /\ ~HasKey(LastOutput, "skipped")
               /\ last.mid = last.pre
         /\ ConditionFalsy =>
               /\ GetKey(LastOutput, "skipped") = Bool(TRUE)
               /\ GetKey(LastOutput, "reason") = Str("Condition not met")
               /\ ~HasKey(LastOutput, "error")
               /\ last.mid = last.pre
         /\ (~ConditionFails /\ ~ConditionFalsy) =>
               /\ GetKey(LastOutput, "success") = Bool(TRUE)
               /\ JsonAt(last.mid, <<"c">>) = Num(5)
    /\ (last.kind = "invoked" /\ LastStep.primitive = "RULE_APPLICATOR"
          /\ (HasKey(LastOutput, "success") \/ HasKey(LastOutput, "fieldPath")
               \/ last.mid # last.pre)) =>
         /\ Truthy(LastInput("enabled"))
         /\ GuardedRule => (~ConditionFails /\ ~ConditionFalsy)

\* The primitives that evaluate or compute and are not meant to write.
ReadOnlyPrimitives == {"CONDITION_EVALUATOR", "EXPRESSION_EVALUATOR", "COMPOSITE_SCORER"}

\* C34 (side-effect confinement): right after a call of CONDITION_EVALUATOR,
\* EXPRESSION_EVALUATOR or COMPOSITE_SCORER the record is what it was before
\* the call; a call that changed the record was one of STATE_MUTATOR or
\* RULE_APPLICATOR; and a record that differs at the end of the step from
\* what the call left belongs to a step with declared output fields.
C34_Confinement ==
    last.kind \in {"invoked", "threw"} =>
       /\ LastStep.primitive \in ReadOnlyPrimitives => last.mid = last.pre
       /\ last.mid # last.pre => LastStep.primitive \in {"STATE_MUTATOR", "RULE_APPLICATOR"}
       /\ Content # last.mid => LastStep.output_fields # <<>>

\* C35 (violation count agreement): in what execute returns, the violation
\* count of the proof and the one of the metrics snapshot both equal the
\* number of violation records in the audit trail.
C35_CountAgreement ==
    \A n \in 1..Len(results) :
        /\ results[n].proof.violations = Len(results[n].auditTrail)
        /\ results[n].metrics.invariants.violations = Len(results[n].auditTrail)

\* The labels under which violations have been counted, and the sum of
\* their counters.
TypeLabels == {metrics.violationsByType[n][1] : n \in 1..Len(metrics.violationsByType)}

TypeTotal ==
    LET F[n \in 0..Len(metrics.violationsByType)] ==
            IF n = 0 THEN 0 ELSE F[n - 1] + metrics.violationsByType[n][2]
    IN F[Len(metrics.violationsByType)]

\* The text of a violation message before its first colon: the first part
\* of a message built as `<label>: <detail>`, the whole of a plain one.
BeforeColon(message) == message[2]

\* C36 (violations by type): at every point of the run each label's counter
\* is the number of violation records whose message has that label before
\* its first colon, every record's label has a counter, and the counters
\* add up to the number of violation records.
C36_ByType ==
    /\ \A i \in 1..Len(auditTrail) : BeforeColon(ViolationMessages[i]) \in TypeLabels
    /\ \A label \in TypeLabels :
          GetKey(metrics.violationsByType, label)
            = Cardinality({i \in 1..Len(auditTrail) :
                              BeforeColon(ViolationMessages[i]) = label})
    /\ TypeTotal = Len(auditTrail)

\* Four violation records under three labels, two of them under the same.
C36_Witness ==
    /\ Len(auditTrail) = 4
    /\ Cardinality(TypeLabels) = 3
    /\ {"Schema invariant failed", "NaN normalized_score detected"} \subseteq TypeLabels
    /\ GetKey(metrics.violationsByType, "Schema invariant failed") = 2
    /\ GetKey(metrics.violationsByType, "NaN normalized_score detected") = 1

\* The sum of the per-primitive invocation counts.
CountTotal ==
    LET F[n \in 0..Len(metrics.primitiveCounts)] ==
            IF n = 0 THEN 0 ELSE F[n - 1] + metrics.primitiveCounts[n][2]
    IN F[Len(metrics.primitiveCounts)]

\* The ledger entries that are step entries, not violation entries.
StepLedgerEntries == {n \in 1..Len(ledger) : ledger[n].operation # "VIOLATION_RECORDED"}

\* The count kept for a primitive name, 0 when there is none.
CountOf(p) == IF HasKey(metrics.primitiveCounts, p) THEN GetKey(metrics.primitiveCounts, p) ELSE 0

\* C37 (invocation counts): at every point of a run the per-primitive
\* counts add up to the number of step entries in the ledger, the count of
\* each registered primitive is the number of steps attempted so far that
\* named it, and no count is kept under any other name.
C37_InvocationCounts ==
    pc # "idle" =>
       /\ CountTotal = Cardinality(StepLedgerEntries)
       /\ \A p \in Registered :
              CountOf(p) = Cardinality({j \in 1..idx : plan[j].primitive = p})
       /\ \A n \in 1..Len(metrics.primitiveCounts) :
              metrics.primitiveCounts[n][1] \in Registered

\* What a write at the path keys may change between the documents j (before)
\* and m (after): the keys of j off the path are in m with their values, a
\* mapping on the path is kept and entered, and any other value stored on
\* the path before its last segment is still there.
RECURSIVE FramePreserved(_, _, _)
FramePreserved(j, m, keys) ==
    /\ m[1] = "obj"
    /\ \A n \in 1..Len(j[2]) :
          j[2][n][1] # keys[1] => GetKey(m[2], j[2][n][1]) = j[2][n][2]
    /\ Len(keys) > 1 =>
          LET c == GetKey(j[2], keys[1])
          IN IF c = Undef THEN TRUE
             ELSE IF c[1] = "obj" THEN FramePreserved(c, GetKey(m[2], keys[1]), Tail(keys))
             ELSE GetKey(m[2], keys[1]) = c

\* C38 (state mutator frame): after a STATE_MUTATOR call that reported
\* success for path p, the record holds, off the path, what it held before
\* the call, and every value that was stored at an intermediate segment of
\* p, a mapping or not, truthy or falsy, is still stored there.
C38_MutatorFrame ==
    (last.kind = "invoked" /\ LastStep.primitive = "STATE_MUTATOR"
       /\ GetKey(LastOutput, "success") = Bool(TRUE)) =>
       FramePreserved(last.pre, last.mid, Split(LastInput("path")[2]))

\* A path STATE_MUTATOR rejects: missing, empty or not a string.
BadPath(v) == v \in {Undef, Str("")} \/ ~IsStr(v)

\* Step j of the plan is a STATE_MUTATOR step whose params give a bad path
\* and that takes no input from the record.
BadPathStep(j) ==
    /\ plan[j].primitive = "STATE_MUTATOR"
    /\ plan[j].input_fields = <<>>
    /\ BadPath(GetProp(heap, plan[j].params, "path"))

\* C39 (invalid path is not itself a violation): a STATE_MUTATOR step with a
\* missing or invalid path reports success:false and records no violation
\* of its own: with no checks bound to STATE_MUTATOR it records none, and
\* with checks bound it records exactly one 'Schema invariant failed' record
\* for each bound stateProgress or consistencyCheck; a run of a plan made
\* only of such steps, with nothing bound, returns no violation records,
\* violation count 0 and the clean outcome.
C39_InvalidPathClean ==
    /\ (last.kind = "invoked" /\ LastStep.primitive = "STATE_MUTATOR"
          /\ BadPath(LastInput("path"))) =>
         LET checks == BoundTo("STATE_MUTATOR")
             failing == {i \in 1..Len(checks) : checks[i] \in KnownChecks}
         IN /\ GetKey(LastOutput, "success") = Bool(FALSE)
            /\ Len(auditTrail) = last.audits + Cardinality(failing)
            /\ \A i \in failing : \E n \in NewViolations(last.audits) :
                  ViolationMessages[n] = Cat("Schema invariant failed", Str(checks[i]))
    /\ (pc = "done" /\ plan # <<>> /\ BoundTo("STATE_MUTATOR") = <<>>
          /\ \A j \in 1..Len(plan) : BadPathStep(j)) =>
         /\ results[1].auditTrail = <<>>
         /\ results[1].proof.violations = 0
         /\ results[1].proof.outcome = "clean_execution"
         /\ results[1].proof.ticks = Len(plan)
         /\ results[1].metrics.outcome = "success"

\* A run of two steps with bad paths and nothing bound has ended clean.
C39_Witness ==
    /\ pc = "done"
    /\ Len(plan) = 2
    /\ BoundTo("STATE_MUTATOR") = <<>>
    /\ \A j \in 1..Len(plan) : BadPathStep(j)
    /\ plan[1].id # plan[2].id
    /\ GetKey(LastOutput, "success") = Bool(FALSE)
    /\ results[1].proof.outcome = "clean_execution"

\* C40 (run independence on reuse): what a call of execute returns reflects
\* that call's step attempts only, on a new instance and on one that has
\* run before: the ticks are the number of steps the call attempted, every
\* violation record carries one of the call's ticks, and the step entries
\* of the ledger and the invocation counts do not exceed the attempts.
C40_RunIndependence ==
    pc = "done" =>
       LET res == results[Len(results)]
       IN /\ res.proof.ticks = idx
          /\ \A i \in 1..Len(res.auditTrail) : ViolationTicks[i] \in 1..idx
          /\ Cardinality({n \in 1..Len(res.ledger) :
                             res.ledger[n].operation # "VIOLATION_RECORDED"}) <= idx
          /\ CountTotal <= idx

====
